---------------------------- MODULE Spec2Model ----------------------------
(***************************************************************************)
(* A model of the deterministic text-to-SQL pipeline:                      *)
(*   LookMLProject -> GroundingIndex -> QueryPlanner -> SQLBuilder         *)
(* with the FieldMapper (expression resolver) the SQLBuilder shares.       *)
(*                                                                         *)
(* Texts are TLA+ strings; they are taken apart with Len and SubSeq and    *)
(* put together with \o, character by character, the way the Python code   *)
(* and its regular expressions do.  Python's None is written "" wherever   *)
(* the code only tests the value for truthiness.  The backquote character  *)
(* cannot be written in a string literal here and is written "~".          *)
(***************************************************************************)
EXTENDS Integers, Sequences, FiniteSets, TLC

----------------------------------------------------------------------------
(* Characters and strings *)

BQ == "~"

CharAt(s, i) == SubSeq(s, i, i)

LowerLetters ==
  {"a","b","c","d","e","f","g","h","i","j","k","l","m",
   "n","o","p","q","r","s","t","u","v","w","x","y","z"}

UpperToLower ==
  [A |-> "a", B |-> "b", C |-> "c", D |-> "d", E |-> "e", F |-> "f", G |-> "g",
   H |-> "h", I |-> "i", J |-> "j", K |-> "k", L |-> "l", M |-> "m", N |-> "n",
   O |-> "o", P |-> "p", Q |-> "q", R |-> "r", S |-> "s", T |-> "t", U |-> "u",
   V |-> "v", W |-> "w", X |-> "x", Y |-> "y", Z |-> "z"]

UpperLetters == DOMAIN UpperToLower

Digits == {"0","1","2","3","4","5","6","7","8","9"}

IsAlpha(c) == c \in LowerLetters \/ c \in UpperLetters

IsDigit(c) == c \in Digits

\* \w of Python's re on ASCII text
WordChars == LowerLetters \cup UpperLetters \cup Digits \cup {"_"}

IsWordChar(c) == c \in WordChars

\* \s of Python's re, and what str.strip() removes
SpaceChars == {" ", "\n", "\t", "\r", "\f"}

IsSpace(c) == c \in SpaceChars

LowerChar(c) == IF c \in UpperLetters THEN UpperToLower[c] ELSE c

\* the least and the greatest member of a non-empty set of integers
SetMin(S) == CHOOSE m \in S : \A n \in S : m <= n

SetMax(S) == CHOOSE m \in S : \A n \in S : m >= n

Max(a, b) == IF a >= b THEN a ELSE b

Min(a, b) == IF a <= b THEN a ELSE b

Range(xs) == { xs[i] : i \in 1..Len(xs) }

\* the concatenation of the strings xs[i..j], by halves
RECURSIVE ConcatRange(_, _, _)
ConcatRange(xs, i, j) ==
  IF i > j THEN ""
  ELSE IF i = j THEN xs[i]
  ELSE LET m == (i + j) \div 2
       IN ConcatRange(xs, i, m) \o ConcatRange(xs, m + 1, j)

\* "".join(xs)
Concat(xs) == ConcatRange(xs, 1, Len(xs))

\* sep.join(xs)
Join(sep, xs) ==
  Concat([i \in 1..Len(xs) |-> IF i = 1 THEN xs[i] ELSE sep \o xs[i]])

\* str.lower()
StrLower(s) == Concat([i \in 1..Len(s) |-> LowerChar(CharAt(s, i))])

\* Python's `t in s`
Contains(s, t) ==
  \E i \in 1..(Len(s) - Len(t) + 1) : SubSeq(s, i, i + Len(t) - 1) = t

StartsWithAt(s, i, t) ==
  /\ i + Len(t) - 1 <= Len(s)
  /\ SubSeq(s, i, i + Len(t) - 1) = t

\* the position of the first occurrence of t in s at or after i, or 0
Find(s, t, i) ==
  LET at == { j \in i..(Len(s) - Len(t) + 1) : StartsWithAt(s, j, t) }
  IN IF at = {} THEN 0 ELSE SetMin(at)

\* re.sub with a literal, non-empty pattern: the occurrences are replaced
\* from the left, an occurrence starting inside a replaced one not counting
RECURSIVE ReplaceAll(_, _, _)
ReplaceAll(s, pat, rep) ==
  LET p == Find(s, pat, 1)
  IN IF p = 0 THEN s
     ELSE SubSeq(s, 1, p - 1) \o rep
          \o ReplaceAll(SubSeq(s, p + Len(pat), Len(s)), pat, rep)

\* str.strip(chars): the characters of the set are removed from both ends
StripSet(s, cs) ==
  LET kept == { i \in 1..Len(s) : CharAt(s, i) \notin cs }
  IN IF kept = {} THEN "" ELSE SubSeq(s, SetMin(kept), SetMax(kept))

\* str.strip()
Strip(s) == StripSet(s, SpaceChars)

\* str.split('.')[-1]
LastDotSegment(s) ==
  LET dots == { i \in 1..Len(s) : CharAt(s, i) = "." }
  IN IF dots = {} THEN s ELSE SubSeq(s, SetMax(dots) + 1, Len(s))

\* the position after the longest run of characters of the set cs from i on
RunEnd(s, i, cs) ==
  SetMin({ j \in i..(Len(s) + 1) : j > Len(s) \/ CharAt(s, j) \notin cs })

\* the list 1, ..., n
Indices(n) == [i \in 1..n |-> i]

\* The maximal runs of \w characters of s, in order.
WordRuns(s) ==
  LET starts == SelectSeq(Indices(Len(s)),
                  LAMBDA i : /\ IsWordChar(CharAt(s, i))
                             /\ (i = 1 \/ ~IsWordChar(CharAt(s, i - 1))))
  IN [n \in 1..Len(starts) |->
        SubSeq(s, starts[n], RunEnd(s, starts[n], WordChars) - 1)]

AllChars(s, P(_)) == \A i \in 1..Len(s) : P(CharAt(s, i))

\* Python's xs[:n] for n >= 0 and, as the slice does, for n < 0 (all but the
\* last -n items)
Take(xs, n) ==
  IF n >= 0 THEN SubSeq(xs, 1, Min(n, Len(xs)))
  ELSE SubSeq(xs, 1, Max(Len(xs) + n, 0))

\* the concatenation of the lists xss[i..j], by halves
RECURSIVE FlattenRange(_, _, _)
FlattenRange(xss, i, j) ==
  IF i > j THEN <<>>
  ELSE IF i = j THEN xss[i]
  ELSE LET m == (i + j) \div 2
       IN FlattenRange(xss, i, m) \o FlattenRange(xss, m + 1, j)

\* the lists of xss one after the other
Flatten(xss) == FlattenRange(xss, 1, Len(xss))

\* the items of xs, each kept where it first occurs
Dedup(xs) ==
  LET firsts == SelectSeq(Indices(Len(xs)),
                          LAMBDA i : \A j \in 1..(i - 1) : xs[j] # xs[i])
  IN [n \in 1..Len(firsts) |-> xs[firsts[n]]]

----------------------------------------------------------------------------
(* Python dicts: insertion-ordered, a sequence of [k, v] entries with       *)
(* distinct keys.  Assigning to a present key keeps the key's position.     *)

EmptyDict == <<>>

DictKeys(d) == [i \in 1..Len(d) |-> d[i].k]

DictValues(d) == [i \in 1..Len(d) |-> d[i].v]

DictHas(d, key) == \E i \in 1..Len(d) : d[i].k = key

DictGet(d, key) == d[CHOOSE i \in 1..Len(d) : d[i].k = key].v

\* d.get(key, default)
DictGetOr(d, key, default) == IF DictHas(d, key) THEN DictGet(d, key) ELSE default

\* d[key] = value
DictPut(d, key, value) ==
  IF DictHas(d, key)
  THEN LET i == CHOOSE j \in 1..Len(d) : d[j].k = key
       IN SubSeq(d, 1, i - 1) \o <<[k |-> key, v |-> value]>> \o SubSeq(d, i + 1, Len(d))
  ELSE Append(d, [k |-> key, v |-> value])

\* The dict that assigning the entries one after the other leaves: a key
\* stands where it was first assigned and holds the value assigned last.
DictFrom(entries) ==
  LET keys == Dedup([i \in 1..Len(entries) |-> entries[i].k])
  IN [n \in 1..Len(keys) |->
        [k |-> keys[n],
         v |-> entries[SetMax({ i \in 1..Len(entries) : entries[i].k = keys[n] })].v]]

\* d.update(e)
DictUpdate(d, e) == DictFrom(d \o e)

----------------------------------------------------------------------------
(* The LookML project: src/lookml/models.py *)

LookMLDimension(name, type, sql, description, hidden, primary_key) ==
  [name |-> name, type |-> type, sql |-> sql, description |-> description,
   hidden |-> hidden, primary_key |-> primary_key, timeframes |-> <<>>]

LookMLMeasure(name, type, sql, description, hidden) ==
  [name |-> name, type |-> type, sql |-> sql, description |-> description,
   hidden |-> hidden]

\* dimensions and measures are lists here; the view keeps them in dicts keyed
\* by name, as the parser fills them
LookMLView(name, sql_table_name, dims, meass) ==
  [name |-> name, sql_table_name |-> sql_table_name,
   dimensions |-> DictFrom([i \in 1..Len(dims) |-> [k |-> dims[i].name, v |-> dims[i]]]),
   measures |-> DictFrom([i \in 1..Len(meass) |-> [k |-> meass[i].name, v |-> meass[i]]]),
   primary_key |-> ""]

LookMLJoin(view_name, type, sql_on) ==
  [view_name |-> view_name, type |-> type, sql_on |-> sql_on]

LookMLExplore(name, from_view, view_name, joins) ==
  [name |-> name, from_view |-> from_view, view_name |-> view_name, joins |-> joins]

\* LookMLExplore.base_view_name
base_view_name(explore) ==
  IF explore.view_name # "" THEN explore.view_name ELSE explore.from_view

LookMLModel(name, views, explores) ==
  [name |-> name,
   views |-> DictFrom([i \in 1..Len(views) |-> [k |-> views[i].name, v |-> views[i]]]),
   explores |-> DictFrom([i \in 1..Len(explores) |->
                            [k |-> explores[i].name, v |-> explores[i]]])]

\* models: a list of LookMLModel, views: a list of standalone views
LookMLProject(models, views) ==
  [models |-> DictFrom([i \in 1..Len(models) |-> [k |-> models[i].name, v |-> models[i]]]),
   views |-> DictFrom([i \in 1..Len(views) |-> [k |-> views[i].name, v |-> views[i]]])]

RECURSIVE UpdateWithModelViews(_, _)
UpdateWithModelViews(all_views, models) ==
  IF Len(models) = 0 THEN all_views
  ELSE UpdateWithModelViews(DictUpdate(all_views, models[1].v.views), Tail(models))

\* LookMLProject.get_all_views
get_all_views(project) == UpdateWithModelViews(project.views, project.models)

PrefixedExplores(model) ==
  [i \in 1..Len(model.explores) |->
     [k |-> model.name \o "." \o model.explores[i].k, v |-> model.explores[i].v]]

RECURSIVE UpdateWithModelExplores(_, _)
UpdateWithModelExplores(all_explores, models) ==
  IF Len(models) = 0 THEN all_explores
  ELSE UpdateWithModelExplores(
         DictUpdate(all_explores, PrefixedExplores(models[1].v)), Tail(models))

\* LookMLProject.get_all_explores
get_all_explores(project) == UpdateWithModelExplores(EmptyDict, project.models)

----------------------------------------------------------------------------
(* LookMLParser: src/lookml/parser.py.  A file is given by its path and by  *)
(* what lkml.load makes of its text: loads is FALSE when lkml.load raises,  *)
(* explores and views are the lists of the blocks of the file, each block   *)
(* the dict of its keys.  A key the block does not have is written "".      *)
(* spelling tells how a dict carries its repeatable blocks (explore, view,  *)
(* dimension, dimension_group, measure, join): "singular" under the         *)
(* singular key as a list, "single" under the singular key as one block     *)
(* that is in no list, "plural" under the plural key as a list.             *)

LookMLFile(path, loads, explores, views) ==
  [path |-> path, loads |-> loads, explores |-> explores, views |-> views,
   spelling |-> "singular"]

\* the dict of a dimension, dimension_group or measure block
FieldData(name, type, sql, hidden, primary_key) ==
  [name |-> name, type |-> type, sql |-> sql, description |-> "",
   hidden |-> hidden, primary_key |-> primary_key, timeframes |-> <<>>]

ViewData(name, sql_table_name, dimensions, dimension_groups, measures) ==
  [name |-> name, sql_table_name |-> sql_table_name, dimensions |-> dimensions,
   dimension_groups |-> dimension_groups, measures |-> measures,
   spelling |-> "singular"]

JoinData(name, type, sql_on, required) ==
  [name |-> name, type |-> type, sql_on |-> sql_on, required |-> required]

ExploreData(name, from, hidden, joins) ==
  [name |-> name, from |-> from, view_name |-> "", hidden |-> hidden, joins |-> joins,
   spelling |-> "singular"]

\* the key under which the dict data carries its blocks of a kind
KeyUnder(data, kind) == IF data.spelling = "plural" THEN kind \o "s" ELSE kind

\* the value the dict has under that key: a list, or one block
ValueUnder(data, blocks) ==
  IF data.spelling = "single" THEN [list |-> FALSE, of |-> blocks[1]]
  ELSE [list |-> TRUE, of |-> blocks]

\* data.get(keys[1], data.get(keys[2], [])), or data.get(keys[1], []) for
\* one key, followed by `if not isinstance(x, list): x = [x]`.  No key of
\* the kind is in the dict when it has no block of the kind.
get_list(data, kind, blocks, keys) ==
  LET x == IF Len(blocks) > 0 /\ KeyUnder(data, kind) \in Range(keys)
           THEN ValueUnder(data, blocks) ELSE [list |-> TRUE, of |-> <<>>]
  IN IF x.list THEN x.of ELSE <<x.of>>

\* str.endswith
EndsWith(s, t) == Len(s) >= Len(t) /\ SubSeq(s, Len(s) - Len(t) + 1, Len(s)) = t

\* Path.stem: the last component of the path without its last suffix
stem(path) ==
  LET slashes == { i \in 1..Len(path) : CharAt(path, i) = "/" }
      name == IF slashes = {} THEN path ELSE SubSeq(path, SetMax(slashes) + 1, Len(path))
      dots == { i \in 2..Len(name) : CharAt(name, i) = "." }
  IN IF dots = {} THEN name ELSE SubSeq(name, 1, SetMax(dots) - 1)

\* What the pydantic models make of the value of a bool field, lkml giving
\* the text of the value: [ok, value], ok FALSE when the validation raises.
\* default: the value of an absent key.
parse_bool(text, default) ==
  IF text = "" THEN [ok |-> TRUE, value |-> default]
  ELSE IF StrLower(text) \in {"yes", "y", "true", "t", "on", "1"}
  THEN [ok |-> TRUE, value |-> TRUE]
  ELSE IF StrLower(text) \in {"no", "n", "false", "f", "off", "0"}
  THEN [ok |-> TRUE, value |-> FALSE]
  ELSE [ok |-> FALSE, value |-> default]

\* Each _parse_... below gives [ok, value]: ok is FALSE when the method
\* raises, and value is then not used.

\* whether none of the parses of a list raised
AllOk(parsed) == \A i \in 1..Len(parsed) : parsed[i].ok

ValuesOf(parsed) == [i \in 1..Len(parsed) |-> parsed[i].value]

\* LookMLParser._parse_dimension
parse_dimension(dim_data) ==
  [ok |-> parse_bool(dim_data.hidden, FALSE).ok /\ parse_bool(dim_data.primary_key, FALSE).ok,
   value |-> [LookMLDimension(dim_data.name, dim_data.type, dim_data.sql,
                              dim_data.description,
                              parse_bool(dim_data.hidden, FALSE).value,
                              parse_bool(dim_data.primary_key, FALSE).value)
                EXCEPT !.timeframes = IF dim_data.type = "time"
                                      THEN dim_data.timeframes ELSE <<>>]]

\* LookMLParser._parse_dimension_group
parse_dimension_group(dim_group_data) ==
  [ok |-> parse_bool(dim_group_data.hidden, FALSE).ok
          /\ parse_bool(dim_group_data.primary_key, FALSE).ok,
   value |-> [LookMLDimension(dim_group_data.name, dim_group_data.type,
                              dim_group_data.sql, dim_group_data.description,
                              parse_bool(dim_group_data.hidden, FALSE).value,
                              parse_bool(dim_group_data.primary_key, FALSE).value)
                EXCEPT !.timeframes = dim_group_data.timeframes]]

\* LookMLParser._parse_measure
parse_measure(measure_data) ==
  [ok |-> parse_bool(measure_data.hidden, FALSE).ok,
   value |-> LookMLMeasure(measure_data.name, measure_data.type, measure_data.sql,
                           measure_data.description,
                           parse_bool(measure_data.hidden, FALSE).value)]

\* the name of the last dimension of the list that is a primary key, or ""
LastPrimaryKey(dimensions) ==
  LET keys == { i \in 1..Len(dimensions) : dimensions[i].primary_key }
  IN IF keys = {} THEN "" ELSE dimensions[SetMax(keys)].name

\* LookMLParser._parse_view
parse_view(view_data) ==
  LET dimension_list == get_list(view_data, "dimension", view_data.dimensions,
                                 <<"dimensions", "dimension">>)
      group_list == get_list(view_data, "dimension_group", view_data.dimension_groups,
                             <<"dimension_groups", "dimension_group">>)
      measure_list == get_list(view_data, "measure", view_data.measures,
                               <<"measures", "measure">>)
      dimensions == [i \in 1..Len(dimension_list) |-> parse_dimension(dimension_list[i])]
      groups == [i \in 1..Len(group_list) |-> parse_dimension_group(group_list[i])]
      measures == [i \in 1..Len(measure_list) |-> parse_measure(measure_list[i])]
  IN [ok |-> AllOk(dimensions) /\ AllOk(groups) /\ AllOk(measures),
      value |-> [LookMLView(view_data.name, view_data.sql_table_name,
                            ValuesOf(dimensions) \o ValuesOf(groups), ValuesOf(measures))
                   EXCEPT !.primary_key = LastPrimaryKey(ValuesOf(dimensions))]]

\* LookMLParser._parse_join
parse_join(join_data) ==
  [ok |-> parse_bool(join_data.required, FALSE).ok,
   value |-> LookMLJoin(join_data.name,
                        IF join_data.type = "" THEN "left_outer" ELSE join_data.type,
                        join_data.sql_on)]

\* LookMLParser._parse_explore
parse_explore(explore_data) ==
  LET join_list == get_list(explore_data, "join", explore_data.joins, <<"join">>)
      joins == [i \in 1..Len(join_list) |-> parse_join(join_list[i])]
  IN [ok |-> parse_bool(explore_data.hidden, FALSE).ok /\ AllOk(joins),
      value |-> LookMLExplore(explore_data.name,
                              IF explore_data.from = "" THEN explore_data.name
                              ELSE explore_data.from,
                              explore_data.view_name, ValuesOf(joins))]

\* the views of the blocks of a file, each parsed
ParsedViews(file) ==
  LET views == get_list(file, "view", file.views, <<"views", "view">>)
  IN [i \in 1..Len(views) |-> parse_view(views[i])]

ParsedExplores(file) ==
  LET explores == get_list(file, "explore", file.explores, <<"explores", "explore">>)
  IN [i \in 1..Len(explores) |-> parse_explore(explores[i])]

\* LookMLParser._parse_model_file; the connection and the includes of the
\* model are not kept, nothing reads them
parse_model_file(file) ==
  [ok |-> file.loads /\ AllOk(ParsedExplores(file)) /\ AllOk(ParsedViews(file)),
   value |-> LookMLModel(stem(file.path), ValuesOf(ParsedViews(file)),
                         ValuesOf(ParsedExplores(file)))]

\* _parse_view_file keeping the views it parsed before a block raised
parse_view_file_partial(file) ==
  [ok |-> file.loads,
   value |-> ValuesOf(SubSeq(ParsedViews(file), 1,
               SetMin({ i \in 1..(Len(ParsedViews(file)) + 1) :
                          i > Len(ParsedViews(file)) \/ ~ParsedViews(file)[i].ok }) - 1))]

\* LookMLParser._parse_view_file: the list of the views of the file
parse_view_file(file) ==
  [ok |-> file.loads /\ AllOk(ParsedViews(file)),
   value |-> ValuesOf(ParsedViews(file))]

\* the files of a list whose parse does not raise, parsed
ParsedFiles(files, parse(_)) ==
  ValuesOf(SelectSeq([i \in 1..Len(files) |-> parse(files[i])], LAMBDA p : p.ok))

\* LookMLParser.parse_project; model_files and view_files are the files the
\* two globs yield, in the order they yield them.  A file whose parse
\* raises is logged and left out.
parse_project(model_files, view_files) ==
  LookMLProject(ParsedFiles(model_files, parse_model_file),
                Flatten(ParsedFiles(view_files, parse_view_file)))

----------------------------------------------------------------------------
(* FieldMapper, the stateless part: src/grounding/field_mapper.py *)

\* re.match(r'^\$\{TABLE\}\.[\w_]+$', expression.strip())
is_simple_column_reference(expression) ==
  LET e == Strip(expression)
      col == SubSeq(e, 10, Len(e))
  IN /\ StartsWithAt(e, 1, "${TABLE}.")
     /\ Len(col) >= 1
     /\ AllChars(col, IsWordChar)

\* expression.split('.', 1)[1], of the expression as given (not stripped);
\* "" stands for None
extract_column_name(expression) ==
  IF is_simple_column_reference(expression)
  THEN SubSeq(expression, Find(expression, ".", 1) + 1, Len(expression))
  ELSE ""

----------------------------------------------------------------------------
(* The physical metadata the BigQuery metadata loader returns *)

ColumnMetadata(data_type, description) ==
  [data_type |-> data_type, description |-> description]

\* the tables of the warehouse: table name -> columns
Warehouse ==
  DictFrom(<<
    [k |-> "users", v |-> DictFrom(<<
       [k |-> "id", v |-> ColumnMetadata("INT64", "Unique user identifier")],
       [k |-> "name", v |-> ColumnMetadata("STRING", "")]>>)],
    [k |-> "orders", v |-> DictFrom(<<
       [k |-> "id", v |-> ColumnMetadata("INT64", "")],
       [k |-> "status", v |-> ColumnMetadata("STRING", "Fulfilment state of the order")],
       [k |-> "created_at", v |-> ColumnMetadata("TIMESTAMP", "")]>>)]
  >>)

\* BigQueryMetadataLoader.load_metadata_for_tables: the metadata of those of
\* the requested tables that exist
load_metadata_for_tables(tables) ==
  SelectSeq(Warehouse, LAMBDA e : e.k \in tables)

----------------------------------------------------------------------------
(* GroundingIndex construction: src/grounding/index.py *)

FieldInfo(name, field_type, lookml_type, sql_expression, lookml_description, bigquery_description, bigquery_data_type, view_name, table_name, hidden) ==
  [name |-> name, field_type |-> field_type, lookml_type |-> lookml_type,
   sql_expression |-> sql_expression, lookml_description |-> lookml_description,
   bigquery_description |-> bigquery_description,
   bigquery_data_type |-> bigquery_data_type,
   view_name |-> view_name, table_name |-> table_name, hidden |-> hidden]

\* FieldInfo.qualified_name
qualified_name(f) == f.view_name \o "." \o f.name

\* the table name as the index looks it up: quotes stripped, last segment
BareTableName(sql_table_name) ==
  LET t == StripSet(sql_table_name, {BQ, "\""})
  IN IF Contains(t, ".") THEN LastDotSegment(t) ELSE t

\* GroundingIndex._extract_referenced_tables
extract_referenced_tables(project) ==
  LET views == get_all_views(project)
  IN { BareTableName(views[i].v.sql_table_name) :
         i \in { j \in 1..Len(views) : views[j].v.sql_table_name # "" } }

\* GroundingIndex._get_table_metadata_for_view: the columns of the view's
\* table, the empty dict when there is no metadata (None)
get_table_metadata_for_view(view, table_metadata) ==
  IF view.sql_table_name = "" THEN EmptyDict
  ELSE DictGetOr(table_metadata, BareTableName(view.sql_table_name), EmptyDict)

DimensionFieldInfo(view, dimension, columns) ==
  LET column_name == IF Len(columns) > 0 /\ dimension.sql # ""
                     THEN extract_column_name(dimension.sql) ELSE ""
      found == column_name # "" /\ DictHas(columns, column_name)
  IN FieldInfo(dimension.name, "dimension", dimension.type, dimension.sql,
               dimension.description,
               IF found THEN DictGet(columns, column_name).description ELSE "",
               IF found THEN DictGet(columns, column_name).data_type ELSE "",
               view.name, view.sql_table_name, dimension.hidden)

MeasureFieldInfo(view, measure) ==
  FieldInfo(measure.name, "measure", measure.type, measure.sql,
            measure.description, "", "", view.name, view.sql_table_name,
            measure.hidden)

\* the entries of the loops of _process_view_fields, hidden ones skipped
VisibleDimensionEntries(view, columns) ==
  LET ds == SelectSeq(view.dimensions, LAMBDA e : ~e.v.hidden)
  IN [i \in 1..Len(ds) |->
        LET f == DimensionFieldInfo(view, ds[i].v, columns)
        IN [k |-> qualified_name(f), v |-> f]]

VisibleMeasureEntries(view) ==
  LET ms == SelectSeq(view.measures, LAMBDA e : ~e.v.hidden)
  IN [i \in 1..Len(ms) |->
        LET f == MeasureFieldInfo(view, ms[i].v)
        IN [k |-> qualified_name(f), v |-> f]]

\* _process_view_fields without `if dimension.hidden: continue` and
\* `if measure.hidden: continue`
process_view_fields_hidden_too(view, columns) ==
  DictUpdate(
    DictFrom([i \in 1..Len(view.dimensions) |->
                [k |-> view.name \o "." \o view.dimensions[i].v.name,
                 v |-> DimensionFieldInfo(view, view.dimensions[i].v, columns)]]),
    [i \in 1..Len(view.measures) |->
       [k |-> view.name \o "." \o view.measures[i].v.name,
        v |-> MeasureFieldInfo(view, view.measures[i].v)]])

\* GroundingIndex._process_view_fields
process_view_fields(view, columns) ==
  DictUpdate(DictFrom(VisibleDimensionEntries(view, columns)),
             VisibleMeasureEntries(view))

ExploreInfo(name, base_view, available_fields, join_graph, join_conditions) ==
  [name |-> name, base_view |-> base_view, available_fields |-> available_fields,
   join_graph |-> join_graph, join_conditions |-> join_conditions]

\* the loop over explore.joins in _build_explores; acc is the triple
\* available_fields, join_graph, join_conditions
RECURSIVE ProcessJoins(_, _, _, _)
ProcessJoins(joins, all_views, table_metadata, acc) ==
  IF Len(joins) = 0 THEN acc
  ELSE LET join == joins[1]
       IN IF ~DictHas(all_views, join.view_name)
          THEN ProcessJoins(Tail(joins), all_views, table_metadata, acc)
          ELSE LET join_view == DictGet(all_views, join.view_name)
                   fields == process_view_fields(join_view,
                               get_table_metadata_for_view(join_view, table_metadata))
               IN ProcessJoins(Tail(joins), all_views, table_metadata,
                    [af |-> DictUpdate(acc.af, fields),
                     jg |-> DictPut(acc.jg, join.view_name, join.type),
                     jc |-> IF join.sql_on # ""
                            THEN DictPut(acc.jc, join.view_name, join.sql_on)
                            ELSE acc.jc])

BuildExploreInfo(explore_name, explore, all_views, table_metadata) ==
  LET base == base_view_name(explore)
      base_fields ==
        IF DictHas(all_views, base)
        THEN process_view_fields(DictGet(all_views, base),
               get_table_metadata_for_view(DictGet(all_views, base), table_metadata))
        ELSE EmptyDict
      acc == ProcessJoins(explore.joins, all_views, table_metadata,
               [af |-> base_fields, jg |-> EmptyDict, jc |-> EmptyDict])
  IN ExploreInfo(explore_name, base, acc.af, acc.jg, acc.jc)

\* GroundingIndex._build_explores
build_explores(project, table_metadata) ==
  LET all_views == get_all_views(project)
      all_explores == get_all_explores(project)
  IN [i \in 1..Len(all_explores) |->
        [k |-> all_explores[i].k,
         v |-> BuildExploreInfo(all_explores[i].k, all_explores[i].v,
                                all_views, table_metadata)]]

StopWordsKeywords ==
  {"the", "and", "for", "are", "but", "not", "you", "all", "can", "had", "her",
   "was", "one", "our", "out", "day", "get", "has", "him", "his", "how", "man",
   "new", "now", "old", "see", "two", "way", "who", "boy", "did", "its", "let",
   "put", "say", "she", "too", "use"}

\* GroundingIndex._extract_keywords: re.findall(r'\b[a-zA-Z]{3,}\b', text.lower())
\* are the maximal \w runs made of letters only, three or more of them
extract_keywords(text) ==
  SelectSeq(WordRuns(StrLower(text)),
            LAMBDA w : /\ Len(w) >= 3
                       /\ AllChars(w, IsAlpha)
                       /\ w \notin StopWordsKeywords)

\* GroundingIndex._add_to_glossary, the term as it is entered: lower case,
\* stripped; terms of one or two characters are not entered
GlossaryTerm(term) == Strip(StrLower(term))

MinGlossaryTermLength == 2

\* the calls of _add_to_glossary that _build_field_glossary makes for one
\* field, in order, as [term, field] pairs
GlossaryCallsForField(f) ==
  LET words == <<StrLower(f.name)>>
               \o (IF f.lookml_description # ""
                   THEN extract_keywords(f.lookml_description) ELSE <<>>)
               \o (IF f.bigquery_description # ""
                   THEN extract_keywords(f.bigquery_description) ELSE <<>>)
  IN [i \in 1..Len(words) |-> [term |-> words[i], field |-> f]]

\* the calls for all fields of all explores, in the order of the two loops
GlossaryCalls(explores_) ==
  Flatten([e \in 1..Len(explores_) |->
             LET fields == DictValues(explores_[e].v.available_fields)
             IN Flatten([i \in 1..Len(fields) |-> GlossaryCallsForField(fields[i])])])

\* GroundingIndex._add_to_glossary applied to the calls one after the other:
\* a term stands where it was first entered, and its list holds the fields
\* entered for it, each once, in the order of their first entry
add_to_glossary(calls) ==
  LET entered == SelectSeq([i \in 1..Len(calls) |->
                              [term |-> GlossaryTerm(calls[i].term),
                               field |-> calls[i].field]],
                           LAMBDA c : Len(c.term) > MinGlossaryTermLength)
      terms == Dedup([i \in 1..Len(entered) |-> entered[i].term])
  IN [n \in 1..Len(terms) |->
        [k |-> terms[n],
         v |-> LET mine == SelectSeq(entered, LAMBDA c : c.term = terms[n])
               IN Dedup([i \in 1..Len(mine) |-> mine[i].field])]]

\* GroundingIndex._build_field_glossary
build_field_glossary(explores_) == add_to_glossary(GlossaryCalls(explores_))

\* GroundingIndex._build_index: the index is the pair explores, field_glossary
build_index(project) ==
  LET ex == build_explores(project,
              load_metadata_for_tables(extract_referenced_tables(project)))
  IN [explores |-> ex, field_glossary |-> build_field_glossary(ex)]

----------------------------------------------------------------------------
(* The projects the engine is started on *)

UsersView ==
  LookMLView("users", "users",
    <<LookMLDimension("id", "number", "${TABLE}.id", "User ID", FALSE, TRUE),
      LookMLDimension("name", "string", "${TABLE}.name", "User name", FALSE, FALSE)>>,
    <<LookMLMeasure("count", "count", "COUNT(${TABLE}.id)", "Count of users", FALSE)>>)

\* table: the view's sql_table_name; hide: status and total are hidden;
\* collide: the view also declares a measure named like its dimension status
OrdersView(table, hide, collide) ==
  LookMLView("orders", table,
    <<LookMLDimension("id", "number", "${TABLE}.id", "", FALSE, TRUE),
      LookMLDimension("status", "string", "${TABLE}.status", "Order status", hide, FALSE),
      LookMLDimension("created", "time", "${TABLE}.created_at", "", FALSE, FALSE)>>,
    <<LookMLMeasure("total", "sum", "SUM(${TABLE}.amount)", "Total revenue", hide)>>
    \o (IF collide
        THEN <<LookMLMeasure("status", "count_distinct",
                             "COUNT(DISTINCT ${TABLE}.status)", "", FALSE)>>
        ELSE <<>>))

ItemsView ==
  LookMLView("order-items", "items",
    <<LookMLDimension("sku", "string", "${TABLE}.sku", "", FALSE, FALSE)>>,
    <<LookMLMeasure("quantity", "sum", "SUM(${TABLE}.qty)", "Items sold", FALSE)>>)

\* the joins the explore users declares when it declares them all, in the
\* order of the declaration
OrdersJoin == LookMLJoin("orders", "left_outer", "${users.id} = ${orders.user_id}")

ItemsJoin == LookMLJoin("order-items", "inner", "${orders.id} = ${TABLE}.order_id")

\* a join to a view that is declared nowhere
ArchiveJoin == LookMLJoin("archive", "full_outer", "")

JoinCandidates == <<OrdersJoin, ItemsJoin>>

\* what is unusual about a project, if anything: the view orders has no
\* sql_table_name; status and total of orders are hidden; orders declares
\* a measure named like its dimension status; an explore audit, whose base
\* view is declared nowhere, comes first; the explore joins the view archive
Flaws == {"none", "no_table", "hide", "collide", "audit_first", "archive"}

\* what varies between the projects: how many of the joins the explore
\* declares, and the flaw
Knobs ==
  { knob \in [joins : 0..Len(JoinCandidates), flaw : Flaws] :
      knob.flaw \in {"no_table", "hide", "collide"} => knob.joins >= 1 }

\* One model, shop, with the explore users over the view users; the views
\* are users and the views the explore joins.
ProjectOf(knob) ==
  LookMLProject(
    <<LookMLModel("shop", <<>>,
        (IF knob.flaw = "audit_first"
         THEN <<LookMLExplore("audit", "audit", "", <<>>)>> ELSE <<>>)
        \o <<LookMLExplore("users", "users", "",
               SubSeq(JoinCandidates, 1, knob.joins)
               \o (IF knob.flaw = "archive" THEN <<ArchiveJoin>> ELSE <<>>))>>)>>,
    <<UsersView>>
    \o (IF knob.joins >= 1
        THEN <<OrdersView(IF knob.flaw = "no_table" THEN "" ELSE "proj.ds.orders",
                          knob.flaw = "hide", knob.flaw = "collide")>>
        ELSE <<>>)
    \o (IF knob.joins >= 2 THEN <<ItemsView>> ELSE <<>>))

\* the project of one view, users, and one explore, users, without joins
UsersProject == ProjectOf([joins |-> 0, flaw |-> "none"])

Projects == { ProjectOf(knob) : knob \in Knobs }

----------------------------------------------------------------------------
(* The regular expressions of the planner and the builder.  A pattern is a  *)
(* list of elements: [t |-> "lit", s |-> text] matches the text,            *)
(* [t |-> "ws"] is \s+, [t |-> "digits"] is (\d+), [t |-> "opt", s |-> c]   *)
(* is c?, [t |-> "wb"] is \b.  \s+ and \d+ are greedy; in the patterns used *)
(* the element after them never starts with a character they accept, so     *)
(* the greedy match is the only one.                                        *)

Lit(text) == [t |-> "lit", s |-> text]

Ws == [t |-> "ws"]

DigitsGroup == [t |-> "digits"]

Opt(c) == [t |-> "opt", s |-> c]

WordBoundary == [t |-> "wb"]

\* \b at position i: between s[i-1] and s[i] exactly one is a word character
IsWordBoundary(s, i) ==
  LET before == i > 1 /\ IsWordChar(CharAt(s, i - 1))
      after == i <= Len(s) /\ IsWordChar(CharAt(s, i))
  IN before # after

NoMatch == [ok |-> FALSE, end |-> 0, group |-> ""]

\* the match of the pattern starting at position i: where it ends and what
\* the group (\d+) captured
RECURSIVE MatchAt(_, _, _, _)
MatchAt(s, i, pat, group) ==
  IF Len(pat) = 0 THEN [ok |-> TRUE, end |-> i, group |-> group]
  ELSE LET e == pat[1]
       IN IF e.t = "lit"
          THEN IF StartsWithAt(s, i, e.s)
               THEN MatchAt(s, i + Len(e.s), Tail(pat), group) ELSE NoMatch
          ELSE IF e.t = "ws"
          THEN LET j == RunEnd(s, i, SpaceChars)
               IN IF j > i THEN MatchAt(s, j, Tail(pat), group) ELSE NoMatch
          ELSE IF e.t = "digits"
          THEN LET j == RunEnd(s, i, Digits)
               IN IF j > i THEN MatchAt(s, j, Tail(pat), SubSeq(s, i, j - 1))
                  ELSE NoMatch
          ELSE IF e.t = "opt"
          THEN IF StartsWithAt(s, i, e.s)
               THEN MatchAt(s, i + Len(e.s), Tail(pat), group)
               ELSE MatchAt(s, i, Tail(pat), group)
          ELSE \* "wb"
               IF IsWordBoundary(s, i) THEN MatchAt(s, i, Tail(pat), group)
               ELSE NoMatch

\* re.search: the match at the leftmost position that has one
Search(s, pat) ==
  LET at == { i \in 1..(Len(s) + 1) : MatchAt(s, i, pat, "").ok }
  IN IF at = {} THEN NoMatch ELSE MatchAt(s, SetMin(at), pat, "")

DigitValue ==
  [d \in Digits |->
     CASE d = "0" -> 0 [] d = "1" -> 1 [] d = "2" -> 2 [] d = "3" -> 3
       [] d = "4" -> 4 [] d = "5" -> 5 [] d = "6" -> 6 [] d = "7" -> 7
       [] d = "8" -> 8 [] d = "9" -> 9]

\* int(text) of a run of digits
RECURSIVE ParseInt(_)
ParseInt(text) ==
  IF Len(text) = 0 THEN 0
  ELSE 10 * ParseInt(SubSeq(text, 1, Len(text) - 1)) + DigitValue[CharAt(text, Len(text))]

----------------------------------------------------------------------------
(* GroundingIndex retrieval: src/grounding/index.py.  An index is a record  *)
(* [explores, field_glossary]; scores are the integers 1, 2, 3 for the      *)
(* floats 1.0, 2.0, 3.0.                                                    *)

ExploreFieldNameScore == 2

ExploreGlossaryScore == 1

FieldNameScore == 3

FieldGlossaryScore == 1

\* sorted(items, key=score, reverse=True): stable, so items of equal score
\* keep their order.  Items are records with a field score; the item at
\* position i goes after the items of higher score and the earlier items of
\* the same score.
SortedByScoreDesc(items) ==
  LET place(i) ==
        1 + Cardinality({ j \in 1..Len(items) :
                            \/ items[j].score > items[i].score
                            \/ items[j].score = items[i].score /\ j < i })
  IN [n \in 1..Len(items) |-> items[CHOOSE i \in 1..Len(items) : place(i) = n]]

\* GroundingIndex.get_explore_by_name; callers test DictHas for None
get_explore_by_name(index, explore_name) == DictGet(index.explores, explore_name)

\* what one query term adds to the score of an explore
ExploreTermScore(index, explore_info, term) ==
  LET term_lower == StrLower(term)
      keys == DictKeys(explore_info.available_fields)
      direct == Len(SelectSeq(keys, LAMBDA field_name :
                                      Contains(StrLower(field_name), term_lower)))
      matching_fields == DictGetOr(index.field_glossary, term_lower, <<>>)
      glossary == Len(SelectSeq(matching_fields,
                                LAMBDA f : qualified_name(f) \in Range(keys)))
  IN ExploreFieldNameScore * direct + ExploreGlossaryScore * glossary

RECURSIVE ExploreScore(_, _, _)
ExploreScore(index, explore_info, query_terms) ==
  IF Len(query_terms) = 0 THEN 0
  ELSE ExploreTermScore(index, explore_info, query_terms[1])
       + ExploreScore(index, explore_info, Tail(query_terms))

\* GroundingIndex.find_relevant_explores: a list of [name, score]
find_relevant_explores(index, query_terms) ==
  LET scored == [i \in 1..Len(index.explores) |->
                   [name |-> index.explores[i].k,
                    score |-> ExploreScore(index, index.explores[i].v, query_terms)]]
  IN SortedByScoreDesc(SelectSeq(scored, LAMBDA e : e.score > 0))

\* the additions for one term when the term is looked for in the key of
\* the field, view name included, as find_relevant_explores does
ScoreAdditionsForTermInKey(index, explore_info, term) ==
  LET term_lower == StrLower(term)
      fields == DictValues(explore_info.available_fields)
      named == SelectSeq(fields, LAMBDA f : Contains(StrLower(qualified_name(f)), term_lower))
      listed == SelectSeq(DictGetOr(index.field_glossary, term_lower, <<>>),
                  LAMBDA f : DictHas(explore_info.available_fields, qualified_name(f)))
  IN [i \in 1..Len(named) |->
        [key |-> qualified_name(named[i]), points |-> FieldNameScore]]
     \o [i \in 1..Len(listed) |->
           [key |-> qualified_name(listed[i]), points |-> FieldGlossaryScore]]

\* the additions to field_scores that the loop over the terms of
\* find_relevant_fields makes for one term, in order: [key, points]
ScoreAdditionsForTerm(index, explore_info, term) ==
  LET term_lower == StrLower(term)
      fields == DictValues(explore_info.available_fields)
      named == SelectSeq(fields, LAMBDA f : Contains(StrLower(f.name), term_lower))
      listed == SelectSeq(DictGetOr(index.field_glossary, term_lower, <<>>),
                  LAMBDA f : DictHas(explore_info.available_fields, qualified_name(f)))
  IN [i \in 1..Len(named) |->
        [key |-> qualified_name(named[i]), points |-> FieldNameScore]]
     \o [i \in 1..Len(listed) |->
           [key |-> qualified_name(listed[i]), points |-> FieldGlossaryScore]]

\* the sum of the points of a list of additions
RECURSIVE SumPoints(_)
SumPoints(additions) ==
  IF Len(additions) = 0 THEN 0
  ELSE additions[1].points + SumPoints(Tail(additions))

\* field_scores once every addition
\* field_scores[key] = field_scores.get(key, 0) + points is made: a key
\* stands where it first got points, with the sum of its points
SummedByKey(additions, keys) ==
  [n \in 1..Len(keys) |->
     [k |-> keys[n],
      v |-> SumPoints(SelectSeq(additions, LAMBDA a : a.key = keys[n]))]]

FirstKeys(additions) == Dedup([i \in 1..Len(additions) |-> additions[i].key])

SumAdditions(additions) == SummedByKey(additions, FirstKeys(additions))

FieldScores(index, explore_info, query_terms) ==
  SumAdditions(Flatten([t \in 1..Len(query_terms) |->
                 ScoreAdditionsForTerm(index, explore_info, query_terms[t])]))

\* GroundingIndex.find_relevant_fields: a list of [field, score]
\* the list result of find_relevant_fields before it is sorted
ScoredFieldList(explore_info, field_scores) ==
  [i \in 1..Len(field_scores) |->
     [field |-> DictGet(explore_info.available_fields, field_scores[i].k),
      score |-> field_scores[i].v]]

find_relevant_fields(index, explore_name, query_terms) ==
  IF ~DictHas(index.explores, explore_name) THEN <<>>
  ELSE SortedByScoreDesc(
         ScoredFieldList(DictGet(index.explores, explore_name),
                         FieldScores(index, DictGet(index.explores, explore_name),
                                     query_terms)))

----------------------------------------------------------------------------
(* QueryPlanner: src/generator/planner.py *)

StopWordsQuery ==
  {"the", "and", "or", "but", "in", "on", "at", "to", "for", "of", "with",
   "by", "from", "up", "about", "into", "over", "after", "what", "when",
   "where", "how", "show", "get", "find", "list", "give", "me", "i", "want",
   "need", "can", "you", "please"}

MinTermLength == 2

FallbackFieldCount == 5

MaxSelectedFields == 10

MinFieldScore == 1

\* QueryPlanner._extract_query_terms: re.findall(r'\b[a-zA-Z_]\w*\b', lower)
\* are the maximal \w runs that do not start with a digit
extract_query_terms(query) ==
  SelectSeq(WordRuns(StrLower(query)),
            LAMBDA term : /\ ~IsDigit(CharAt(term, 1))
                          /\ term \notin StopWordsQuery
                          /\ Len(term) > MinTermLength)

LimitPatterns ==
  <<<<WordBoundary, Lit("limit"), Ws, DigitsGroup>>,
    <<WordBoundary, Lit("top"), Ws, DigitsGroup>>,
    <<WordBoundary, Lit("first"), Ws, DigitsGroup>>>>

NoLimit == -1

RECURSIVE FirstLimitMatch(_, _)
FirstLimitMatch(text, patterns) ==
  IF Len(patterns) = 0 THEN NoLimit
  ELSE LET m == Search(text, patterns[1])
       IN IF m.ok THEN ParseInt(m.group) ELSE FirstLimitMatch(text, Tail(patterns))

\* QueryPlanner._extract_limit; NoLimit stands for None
extract_limit(query) == FirstLimitMatch(StrLower(query), LimitPatterns)

\* self._extract_limit(query) or default_limit
LimitOrDefault(query, default_limit) ==
  LET limit == extract_limit(query)
  IN IF limit = NoLimit \/ limit = 0 THEN default_limit ELSE limit

\* QueryPlanner._select_explore; "" stands for None
\* _select_explore without the fallback to the first explore
BestExploreOrNone(index, relevant_explores) ==
  IF Len(relevant_explores) = 0 THEN "" ELSE relevant_explores[1].name

\* _select_explore once the explores are scored: the best one, or the first
\* of the index when none has scored
BestExplore(index, relevant_explores) ==
  IF Len(relevant_explores) = 0
  THEN IF Len(index.explores) > 0 THEN DictKeys(index.explores)[1] ELSE ""
  ELSE relevant_explores[1].name

select_explore(index, query_terms) ==
  BestExplore(index, find_relevant_explores(index, query_terms))

\* the first non-hidden dimension of the explore, as a list of at most one
FirstDimension(explore_info) ==
  Take(SelectSeq(DictValues(explore_info.available_fields),
                 LAMBDA f : f.field_type = "dimension" /\ ~f.hidden), 1)

\* QueryPlanner._select_fields
\* the fallback of _select_fields: available[:5]
FallbackFields(index, explore_name) ==
  IF DictHas(index.explores, explore_name)
  THEN Take(SelectSeq(DictValues(get_explore_by_name(index, explore_name)
                                   .available_fields),
                      LAMBDA f : ~f.hidden),
            FallbackFieldCount)
  ELSE <<>>

\* the fields of the entries: [field for field, score in scored]
FieldsOf(scored) == [i \in 1..Len(scored) |-> scored[i].field]

\* the fields with a score of at least 1.0, in the order of the scores
HighScoring(relevant_fields) ==
  FieldsOf(SelectSeq(relevant_fields, LAMBDA r : r.score >= MinFieldScore))

\* selected with a dimension appended when it holds measures and none
WithDimension(index, explore_name, selected) ==
  IF /\ \E i \in 1..Len(selected) : selected[i].field_type = "measure"
     /\ ~\E i \in 1..Len(selected) : selected[i].field_type = "dimension"
     /\ DictHas(index.explores, explore_name)
  THEN selected \o FirstDimension(get_explore_by_name(index, explore_name))
  ELSE selected

SelectFrom(index, explore_name, relevant_fields) ==
  IF Len(relevant_fields) = 0
  THEN FallbackFields(index, explore_name)
  ELSE Take(WithDimension(index, explore_name, HighScoring(relevant_fields)),
            MaxSelectedFields)

select_fields(index, explore_name, query_terms) ==
  SelectFrom(index, explore_name,
             find_relevant_fields(index, explore_name, query_terms))

\* the views of the selected fields other than the base view
RequiredViews(explore_info, selected_fields) ==
  { selected_fields[i].view_name : i \in 1..Len(selected_fields) }
    \ {explore_info.base_view}

\* QueryPlanner._determine_required_joins: the sets it can return.  When the
\* views exceed max_joins the code keeps list(required_views)[:max_joins],
\* and the order in which a set of strings is listed is not determined by
\* the program, so every subset of that size is a possible result.
\* _determine_required_joins without the check against max_joins
KeptViewsUnlimited(required_views, max_joins_) == {required_views}

\* the sets of views kept of the required views under max_joins
KeptViews(required_views, max_joins_) ==
  IF Cardinality(required_views) > max_joins_
  THEN { kept \in SUBSET required_views :
           Cardinality(kept) =
             Len(Take([i \in 1..Cardinality(required_views) |-> i], max_joins_)) }
  ELSE {required_views}

determine_required_joins(index, explore_name, selected_fields, max_joins_) ==
  IF ~DictHas(index.explores, explore_name) THEN {{}}
  ELSE KeptViews(RequiredViews(get_explore_by_name(index, explore_name),
                               selected_fields),
                 max_joins_)

\* the relative-time patterns of _extract_basic_filters with the text their
\* filter puts before and after the field and the captured number
TimePatterns ==
  <<[pat |-> <<Lit("last"), Ws, DigitsGroup, Ws, Lit("day"), Opt("s")>>,
     before |-> "DATE_DIFF(CURRENT_DATE(), DATE(", after |-> "), DAY) <= "],
    [pat |-> <<Lit("last"), Ws, DigitsGroup, Ws, Lit("month"), Opt("s")>>,
     before |-> "DATE_DIFF(CURRENT_DATE(), DATE(", after |-> "), MONTH) <= "],
    [pat |-> <<Lit("this"), Ws, Lit("year")>>,
     before |-> "EXTRACT(YEAR FROM ",
     after |-> ") = EXTRACT(YEAR FROM CURRENT_DATE())"],
    [pat |-> <<Lit("this"), Ws, Lit("month")>>,
     before |-> "DATE_TRUNC(DATE(",
     after |-> "), MONTH) = DATE_TRUNC(CURRENT_DATE(), MONTH)"]>>

RECURSIVE FirstTimeFilter(_, _, _)
FirstTimeFilter(text, patterns, field) ==
  IF Len(patterns) = 0 THEN <<>>
  ELSE LET m == Search(text, patterns[1].pat)
       IN IF m.ok
          THEN <<patterns[1].before \o field \o patterns[1].after \o m.group>>
          ELSE FirstTimeFilter(text, Tail(patterns), field)

\* QueryPlanner._extract_basic_filters
extract_basic_filters(query, selected_fields) ==
  LET time_fields == SelectSeq(selected_fields,
                               LAMBDA f : f.lookml_type \in {"time", "date"})
  IN IF Len(time_fields) > 0
     THEN FirstTimeFilter(StrLower(query), TimePatterns,
                          time_fields[1].view_name \o "." \o time_fields[1].name)
     ELSE <<>>

QueryPlan(explore_name, selected_fields, required_joins, filters, limit, has_aggregation, llm_generated_sql) ==
  [explore_name |-> explore_name, selected_fields |-> selected_fields,
   required_joins |-> required_joins, filters |-> filters, limit |-> limit,
   has_aggregation |-> has_aggregation, llm_generated_sql |-> llm_generated_sql]

\* what plan_query returns for None
NoPlan == [explore_name |-> ""]

\* QueryPlanner.plan_query: the plans it can return (one, but for the
\* choice of the joins kept under max_joins), or NoPlan
\* plan_query from line 56 on: the fields are selected
PlansFor(index, max_joins_, query, limit, explore_name, selected_fields) ==
  IF Len(selected_fields) = 0 THEN {NoPlan}
  ELSE { QueryPlan(explore_name, selected_fields, required_joins,
                   extract_basic_filters(query, selected_fields), limit,
                   \E i \in 1..Len(selected_fields) :
                      selected_fields[i].field_type = "measure",
                   "") :
           required_joins \in
             determine_required_joins(index, explore_name, selected_fields,
                                      max_joins_) }

\* plan_query from line 46 on: the explore is selected
PlansIn(index, max_joins_, query, limit, query_terms, explore_name) ==
  IF explore_name = "" THEN {NoPlan}
  ELSE PlansFor(index, max_joins_, query, limit, explore_name,
                select_fields(index, explore_name, query_terms))

\* plan_query from line 44 on: the terms and the limit are extracted
PlansWith(index, max_joins_, query, limit, query_terms) ==
  PlansIn(index, max_joins_, query, limit, query_terms,
          select_explore(index, query_terms))

plan_query(index, max_joins_, query, default_limit) ==
  PlansWith(index, max_joins_, query, LimitOrDefault(query, default_limit),
            extract_query_terms(query))

----------------------------------------------------------------------------
(* FieldMapper, the resolver: src/grounding/field_mapper.py.  The mapper's  *)
(* table_aliases dict is passed in as aliases.                              *)

\* the escapes of a replacement template of re.sub that stand for one
\* character
TemplateEscapes ==
  [c \in {"\\", "n", "t", "r", "f"} |->
     CASE c = "\\" -> "\\" [] c = "n" -> "\n" [] c = "t" -> "\t"
       [] c = "r" -> "\r" [] OTHER -> "\f"]

\* re.sub reads its replacement as a template: a backslash and the
\* character after it are an escape.  The pattern ${TABLE} has no group, so
\* a backslash before any other letter or before a digit, or at the end, is
\* an error (the escapes \a, \b, \v, \0 and \g<0> are not among the
\* texts resolved here); before any other character it stays as written.
RECURSIVE expand_template(_)
expand_template(repl) ==
  LET slash == Find(repl, "\\", 1)
      escaped == CharAt(repl, slash + 1)
      rest == expand_template(SubSeq(repl, slash + 2, Len(repl)))
  IN IF slash = 0 THEN [ok |-> TRUE, text |-> repl]
     ELSE IF slash = Len(repl) THEN [ok |-> FALSE, text |-> ""]
     ELSE IF escaped \in DOMAIN TemplateEscapes
     THEN [ok |-> rest.ok,
           text |-> SubSeq(repl, 1, slash - 1) \o TemplateEscapes[escaped] \o rest.text]
     ELSE IF IsAlpha(escaped) \/ IsDigit(escaped) THEN [ok |-> FALSE, text |-> ""]
     ELSE [ok |-> rest.ok,
           text |-> SubSeq(repl, 1, slash + 1) \o rest.text]

\* FieldMapper._resolve_table_references, when re.sub does not raise
resolve_table_references(aliases, expression, table_name) ==
  ReplaceAll(expression, "${TABLE}",
             expand_template(DictGetOr(aliases, table_name, table_name)).text)

\* re.sub of _resolve_table_references raises re.error: the table
\* reference is not a template
resolve_raises(aliases, expression, table_name) ==
  expression # "" /\ ~expand_template(DictGetOr(aliases, table_name, table_name)).ok

\* replace_field_ref of _resolve_field_references, for the text between
\* "${" and "}": the part before the first dot is the view when it and the
\* rest are not empty, otherwise the whole text is the field
ReplaceFieldRef(content, current_view, field_mappings) ==
  LET dot == Find(content, ".", 1)
      split == dot >= 2 /\ dot < Len(content)
      view_name == IF split THEN SubSeq(content, 1, dot - 1) ELSE current_view
      field_name == IF split THEN SubSeq(content, dot + 1, Len(content)) ELSE content
      field_key == view_name \o "." \o field_name
  IN IF DictHas(field_mappings, field_key) THEN DictGet(field_mappings, field_key)
     ELSE IF DictHas(field_mappings, field_name) THEN DictGet(field_mappings, field_name)
     ELSE "${" \o content \o "}"

\* FieldMapper._resolve_field_references: re.sub over the matches of
\* \$\{(?:([^.}]+)\.)?([^}]+)\}, from the left
RECURSIVE resolve_field_references(_, _, _)
resolve_field_references(expression, current_view, field_mappings) ==
  LET open == Find(expression, "${", 1)
      close == IF open = 0 THEN 0 ELSE Find(expression, "}", open + 2)
  IN IF open = 0 \/ close = 0 THEN expression
     ELSE IF close = open + 2
     THEN SubSeq(expression, 1, open)
          \o resolve_field_references(SubSeq(expression, open + 1, Len(expression)),
                                      current_view, field_mappings)
     ELSE SubSeq(expression, 1, open - 1)
          \o ReplaceFieldRef(SubSeq(expression, open + 2, close - 1),
                             current_view, field_mappings)
          \o resolve_field_references(SubSeq(expression, close + 1, Len(expression)),
                                      current_view, field_mappings)

\* FieldMapper.resolve_lookml_expression
resolve_lookml_expression(aliases, expression, table_name, view_name, field_mappings) ==
  IF expression = "" THEN expression
  ELSE resolve_field_references(
         resolve_table_references(aliases, expression, table_name),
         view_name, field_mappings)

\* FieldMapper.set_table_alias
set_table_alias(aliases, table_name, alias) == DictPut(aliases, table_name, alias)

\* FieldMapper.clear_aliases
clear_aliases(aliases) == EmptyDict

----------------------------------------------------------------------------
(* SQLBuilder: src/generator/sql_builder.py.  A call of build_sql is a      *)
(* frame that goes through the statements of the method; each step reads    *)
(* or writes the shared mapper's table_aliases at most once.                *)

\* an alias of one letter, the first of the view name
get_table_alias_initial(view_name) == SubSeq(StrLower(view_name), 1, 1)

\* SQLBuilder._get_table_alias
get_table_alias(view_name) == ReplaceAll(StrLower(view_name), "-", "_")

\* SQLBuilder._clean_table_name
clean_table_name(table_name) ==
  LET cleaned == StripSet(table_name, {BQ, "\"", "'"})
  IN IF Contains(cleaned, ".") /\ ~StartsWithAt(cleaned, 1, BQ)
     THEN BQ \o cleaned \o BQ
     ELSE cleaned

\* SQLBuilder._convert_join_type
convert_join_type(lookml_join_type) ==
  CASE lookml_join_type = "left_outer" -> "LEFT"
    [] lookml_join_type = "right_outer" -> "RIGHT"
    [] lookml_join_type = "full_outer" -> "FULL OUTER"
    [] lookml_join_type = "inner" -> "INNER"
    [] lookml_join_type = "cross" -> "CROSS"
    [] OTHER -> "LEFT"

\* _build_group_by_clause with enumerate(selected_fields) counting from 0
build_group_by_clause_from_zero(selected_fields, has_aggregation) ==
  IF ~has_aggregation THEN ""
  ELSE LET positions == SelectSeq(Indices(Len(selected_fields)),
                          LAMBDA i : selected_fields[i].field_type # "measure")
       IN Join(", ", [n \in 1..Len(positions) |-> ToString(positions[n] - 1)])

\* SQLBuilder._build_group_by_clause; "" stands for None
build_group_by_clause(selected_fields, has_aggregation) ==
  IF ~has_aggregation THEN ""
  ELSE LET positions == SelectSeq(Indices(Len(selected_fields)),
                          LAMBDA i : selected_fields[i].field_type # "measure")
       IN Join(", ", [n \in 1..Len(positions) |-> ToString(positions[n])])

\* SQLBuilder._build_limit_clause; "" stands for None
build_limit_clause(limit) ==
  IF limit # 0 THEN "LIMIT " \o ToString(limit) ELSE ""

\* the end of build_sql: the clauses put together
AssembleSql(select_clause, from_clause, where_clause, group_by_clause, limit_clause) ==
  Join("\n", <<"SELECT\n" \o select_clause, "FROM " \o from_clause>>
             \o (IF where_clause # "" THEN <<"WHERE " \o where_clause>> ELSE <<>>)
             \o (IF group_by_clause # "" THEN <<"GROUP BY " \o group_by_clause>> ELSE <<>>)
             \o (IF limit_clause # "" THEN <<limit_clause>> ELSE <<>>))

\* a resolution of an expression by a call, as the call's record of it:
\* the table it was for, whether table_aliases held an alias for the table,
\* and whether the call itself had registered one before
Resolution(frame, aliases, table_name) ==
  [table |-> table_name,
   aliased |-> DictHas(aliases, table_name),
   own |-> \E r \in frame.registered : r[1] = table_name,
   ref |-> DictGetOr(aliases, table_name, table_name)]

\* the item of the SELECT list for one field: _build_select_clause's loop body
SelectItem(aliases, field) ==
  IF field.sql_expression # ""
  THEN "  " \o resolve_lookml_expression(aliases, field.sql_expression,
                                         field.table_name, field.view_name, EmptyDict)
       \o " AS " \o field.name
  ELSE "  " \o get_table_alias(field.view_name) \o "." \o field.name
       \o " AS " \o field.name

\* build_sql returning the SQL of the plan as it is, not trimmed
pass_through_sql_untrimmed(plan_) == plan_.llm_generated_sql

\* what build_sql returns for a plan with llm_generated_sql: line 29
pass_through_sql(plan_) == Strip(plan_.llm_generated_sql)

\* the frame of a call of build_sql(plan) at its first statement
NewFrame(plan_) ==
  [pc |-> "start", plan |-> plan_, i |-> 1, select_items |-> <<>>,
   from_clause |-> "", join_clauses |-> <<>>, where_clause |-> "",
   registered |-> {}, resolutions |-> {}, skipped_joins |-> {},
   status |-> "running", sql |-> "", error |-> ""]

Raise(frame, message) ==
  [frame EXCEPT !.pc = "done", !.status = "error", !.error = message]

Return(frame, text) ==
  [frame EXCEPT !.pc = "done", !.status = "ok", !.sql = text]

\* the explore the joins are read from: the loop over get_all_explores()
ExploreDefinition(project, explore_info) ==
  DictGet(get_all_explores(project), explore_info.name)

\* One step of a call of build_sql on the builder of the engine: the pair
\* of the frame and table_aliases after it.
BuildStep(project, index, frame, aliases) ==
  LET plan_ == frame.plan
      explore_info == get_explore_by_name(index, plan_.explore_name)
      all_views == get_all_views(project)
  IN CASE frame.pc = "start" ->
            \* lines 27-35
            IF plan_.llm_generated_sql # ""
            THEN <<Return(frame, pass_through_sql(plan_)), aliases>>
            ELSE IF ~DictHas(index.explores, plan_.explore_name)
            THEN <<Raise(frame, "Explore not found"), aliases>>
            ELSE <<[frame EXCEPT !.pc = "clear"], aliases>>
       [] frame.pc = "clear" ->
            \* line 38
            <<[frame EXCEPT !.pc = "select", !.i = 1], clear_aliases(aliases)>>
       [] frame.pc = "select" ->
            \* _build_select_clause, one field of the loop
            IF frame.i > Len(plan_.selected_fields)
            THEN <<[frame EXCEPT !.pc = "from"], aliases>>
            ELSE LET field == plan_.selected_fields[frame.i]
                 IN IF resolve_raises(aliases, field.sql_expression, field.table_name)
                    THEN <<Raise(frame, "re.error"), aliases>>
                    ELSE
                    <<[frame EXCEPT
                         !.i = @ + 1,
                         !.select_items = Append(@, SelectItem(aliases, field)),
                         !.resolutions =
                           IF field.sql_expression # ""
                              /\ Contains(field.sql_expression, "${TABLE}")
                           THEN @ \cup {Resolution(frame, aliases, field.table_name)}
                           ELSE @],
                      aliases>>
       [] frame.pc = "from" ->
            \* _build_from_clause, lines 98-110
            IF \/ ~DictHas(all_views, explore_info.base_view)
               \/ DictGet(all_views, explore_info.base_view).sql_table_name = ""
            THEN <<Raise(frame, "Base view not found or missing sql_table_name"), aliases>>
            ELSE LET base_table == clean_table_name(
                                     DictGet(all_views, explore_info.base_view).sql_table_name)
                     base_alias == get_table_alias(explore_info.base_view)
                 IN <<[frame EXCEPT
                         !.from_clause = base_table \o " AS " \o base_alias,
                         !.registered = @ \cup {<<base_table, base_alias>>},
                         !.i = 1,
                         !.pc = IF plan_.required_joins # {} THEN "join" ELSE "where"],
                      set_table_alias(aliases, base_table, base_alias)>>
       [] frame.pc = "join" ->
            \* _build_join_clauses, the loop up to set_table_alias
            LET joins == ExploreDefinition(project, explore_info).joins
            IN IF frame.i > Len(joins)
               THEN <<[frame EXCEPT !.pc = "where"], aliases>>
               ELSE LET join == joins[frame.i]
                    IN IF join.view_name \notin plan_.required_joins
                       THEN <<[frame EXCEPT !.i = @ + 1], aliases>>
                       ELSE IF \/ ~DictHas(all_views, join.view_name)
                               \/ DictGet(all_views, join.view_name).sql_table_name = ""
                       THEN \* a warning is logged and the join is passed over
                            <<[frame EXCEPT !.i = @ + 1,
                                            !.skipped_joins = @ \cup {join.view_name}],
                              aliases>>
                       ELSE LET join_table == clean_table_name(
                                   DictGet(all_views, join.view_name).sql_table_name)
                                join_alias == get_table_alias(join.view_name)
                            IN <<[frame EXCEPT
                                    !.pc = "join_on",
                                    !.registered = @ \cup {<<join_table, join_alias>>}],
                                 set_table_alias(aliases, join_table, join_alias)>>
       [] frame.pc = "join_on" ->
            \* _build_join_clauses, lines 150-163
            LET join == ExploreDefinition(project, explore_info).joins[frame.i]
                join_table == clean_table_name(
                                DictGet(all_views, join.view_name).sql_table_name)
                join_alias == get_table_alias(join.view_name)
                join_clause == convert_join_type(join.type) \o " JOIN " \o join_table
                               \o " AS " \o join_alias
            IN IF resolve_raises(aliases, join.sql_on, join_table)
               THEN <<Raise(frame, "re.error"), aliases>>
               ELSE
               <<[frame EXCEPT
                    !.pc = "join",
                    !.i = @ + 1,
                    !.join_clauses =
                      Append(@, IF join.sql_on # ""
                                THEN join_clause \o " ON "
                                     \o resolve_lookml_expression(aliases, join.sql_on,
                                          join_table, join.view_name, EmptyDict)
                                ELSE join_clause),
                    !.resolutions =
                      IF join.sql_on # "" /\ Contains(join.sql_on, "${TABLE}")
                      THEN @ \cup {Resolution(frame, aliases, join_table)}
                      ELSE @],
                 aliases>>
       [] frame.pc = "where" ->
            \* _build_where_clause
            <<[frame EXCEPT
                 !.pc = "assemble",
                 !.where_clause =
                   Join(" AND ", [n \in 1..Len(plan_.filters) |->
                                    resolve_lookml_expression(aliases, plan_.filters[n],
                                                              "", "", EmptyDict)])],
              aliases>>
       [] frame.pc = "assemble" ->
            \* lines 50-72
            <<Return(frame,
                AssembleSql(Join(",\n", frame.select_items),
                            IF Len(frame.join_clauses) > 0
                            THEN frame.from_clause \o "\n" \o Join("\n", frame.join_clauses)
                            ELSE frame.from_clause,
                            frame.where_clause,
                            build_group_by_clause(plan_.selected_fields,
                                                  plan_.has_aggregation),
                            build_limit_clause(plan_.limit))),
              aliases>>

\* the steps of a call up to its return or raise, nothing running in between
RECURSIVE RunToEnd(_, _, _, _)
RunToEnd(project, index, frame, aliases) ==
  IF frame.pc = "done" THEN <<frame, aliases>>
  ELSE LET next == BuildStep(project, index, frame, aliases)
       IN RunToEnd(project, index, next[1], next[2])

\* SQLBuilder.build_sql, not interleaved with another call: the finished
\* frame and table_aliases after the call
build_sql(project, index, aliases, plan_) ==
  RunToEnd(project, index, NewFrame(plan_), aliases)

\* enforce_limit without re.IGNORECASE
enforce_limit_case_sensitive(sql, default_limit) ==
  IF Search(sql, <<WordBoundary, Lit("LIMIT"), Ws, DigitsGroup, WordBoundary>>).ok
  THEN sql
  ELSE sql \o "\nLIMIT " \o ToString(default_limit)

\* SQLBuilder.enforce_limit: re.search(r'\bLIMIT\s+\d+\b', sql, re.IGNORECASE)
enforce_limit(sql, default_limit) ==
  IF Search(StrLower(sql), <<WordBoundary, Lit("limit"), Ws, DigitsGroup, WordBoundary>>).ok
  THEN sql
  ELSE sql \o "\nLIMIT " \o ToString(default_limit)

----------------------------------------------------------------------------
(* The engine: TextToSQLEngine.initialize builds one FieldMapper, the       *)
(* GroundingIndex, the QueryPlanner and the SQLBuilder; then the            *)
(* operations are called on them.                                          *)

VARIABLES
  lookml_files,    \* the files under LookMLParser.repo_path
  lookml_project,  \* GroundingIndex.lookml_project
  index,           \* GroundingIndex.explores and GroundingIndex.field_glossary
  max_joins,       \* QueryPlanner.max_joins
  table_aliases,   \* FieldMapper.table_aliases of the one mapper of the engine
  result,          \* the operation that returned last, its argument and return
  calls,           \* the build_sql calls in progress
  llm_planner      \* the LLMQueryPlanner of the engine and its plan_query call

vars ==
  <<lookml_files, lookml_project, index, max_joins, table_aliases, result, calls,
    llm_planner>>

\* GeneratorConfig.default_limit
DefaultLimit == 100

\* the largest max_joins the engine is configured with
MaxJoinsLimit == 1

\* the requests
Queries ==
  {"show me the count of users",
   "Quantity and total status by name in the last 7 days limit 5",
   "zzz top 0"}

NoResult == [op |-> "none"]

\* the engine has no LLMQueryPlanner: it plans with the QueryPlanner
NoLLMPlanner == [pc |-> "none"]

\* the threads that call build_sql on the builder of the engine
Callers == {"a", "b"}

\* a caller that has not called
IdleFrame == [pc |-> "idle"]

NoCallRunning == \A caller \in Callers : calls[caller].pc = "idle"

\* TextToSQLEngine.initialize, on a project that is handed over as an
\* object and not read from files
EngineOn(project, max_joins_) ==
  /\ lookml_files = {}
  /\ lookml_project = project
  /\ index = build_index(project)
  /\ max_joins = max_joins_
  /\ table_aliases = EmptyDict
  /\ result = NoResult
  /\ calls = [caller \in Callers |-> IdleFrame]
  /\ llm_planner = NoLLMPlanner

Init ==
  \E project \in Projects, max_joins_ \in -1..MaxJoinsLimit :
    EngineOn(project, max_joins_)

\* field_glossary after a read of it for a term with a default,
\* as of a defaultdict(list): a term it does not hold gets an empty list
GlossaryLookupDefaulting(field_glossary, term) ==
  IF DictHas(field_glossary, StrLower(term)) THEN field_glossary
  ELSE DictPut(field_glossary, StrLower(term), <<>>)

\* field_glossary after the guarded read
\* `if term_lower in self.field_glossary: ... self.field_glossary[term_lower]`:
\* field_glossary is a plain dict and the read adds no key to it
GlossaryLookup(field_glossary, term) == field_glossary

\* the index after the glossary has been read for each of the terms
RECURSIVE IndexAfterLookups(_, _)
IndexAfterLookups(index_, terms) ==
  IF Len(terms) = 0 THEN index_
  ELSE IndexAfterLookups(
         [index_ EXCEPT !.field_glossary = GlossaryLookup(@, terms[1])],
         Tail(terms))

Returned(op, arg, ret) == result' = [op |-> op, arg |-> arg, ret |-> ret]

\* GroundingIndex.find_relevant_explores(query_terms)
FindRelevantExplores(query) ==
  /\ NoCallRunning
  /\ Returned("find_relevant_explores", extract_query_terms(query),
              find_relevant_explores(index, extract_query_terms(query)))
  /\ index' = IndexAfterLookups(index, extract_query_terms(query))
  /\ UNCHANGED <<lookml_files, lookml_project, max_joins, table_aliases, calls, llm_planner>>

\* GroundingIndex.find_relevant_fields(explore_name, query_terms)
FindRelevantFields(explore_name, query) ==
  /\ NoCallRunning
  /\ Returned("find_relevant_fields", <<explore_name, extract_query_terms(query)>>,
              find_relevant_fields(index, explore_name, extract_query_terms(query)))
  /\ index' = IF DictHas(index.explores, explore_name)
              THEN IndexAfterLookups(index, extract_query_terms(query))
              ELSE index
  /\ UNCHANGED <<lookml_files, lookml_project, max_joins, table_aliases, calls, llm_planner>>

\* GroundingIndex.get_explore_by_name(explore_name); the return is a list
\* of the ExploreInfo, empty for None
GetExploreByName(explore_name) ==
  /\ NoCallRunning
  /\ Returned("get_explore_by_name", explore_name,
              IF DictHas(index.explores, explore_name)
              THEN <<get_explore_by_name(index, explore_name)>>
              ELSE <<>>)
  /\ UNCHANGED <<lookml_files, lookml_project, index, max_joins, table_aliases, calls, llm_planner>>

\* QueryPlanner.plan_query(query, default_limit)
PlanQuery(query) ==
  /\ NoCallRunning
  /\ \E plan \in plan_query(index, max_joins, query, DefaultLimit) :
       Returned("plan_query", query, plan)
  /\ index' = IndexAfterLookups(index, extract_query_terms(query))
  /\ UNCHANGED <<lookml_files, lookml_project, max_joins, table_aliases, calls, llm_planner>>

\* the plan an external planner hands over: llm_generated_sql is set
PassThroughPlan ==
  QueryPlan("", <<>>, {}, <<>>, DefaultLimit, FALSE, "  SELECT 1\n")

\* the views the joins of an explore declare
DeclaredJoinViews(project, explore_name) ==
  { join.view_name : join \in Range(DictGet(get_all_explores(project), explore_name).joins) }

\* the first measure of an explore, as a list of selected fields
FirstMeasure(explore_info) ==
  Take(SelectSeq(DictValues(explore_info.available_fields),
                 LAMBDA f : f.field_type = "measure"), 1)

\* the SQL texts an external planner hands over
PassThroughTexts == {"  SELECT 1\n", "SELECT 2\nLIMIT 5", "\t \n"}

\* the plans an external planner hands over: llm_generated_sql is set, on
\* the plan LLMQueryPlanner._sql_to_query_plan makes and on a plan with an
\* unknown explore, a field, a join, a filter and a limit
PassThroughPlans ==
  { QueryPlan("", <<>>, {}, <<>>, DefaultLimit, FALSE, text) : text \in PassThroughTexts }
  \cup { QueryPlan("shop.nowhere",
                   FirstMeasure(get_explore_by_name(index, "shop.users")),
                   {"orders"}, <<"1 = 1">>, 5, TRUE, text) : text \in PassThroughTexts }

\* the plans a caller of build_sql makes up: the first measure of an explore
\* of the index, any of the joins the explore declares, no filter
HandPlans(project, index_) ==
  UNION { { QueryPlan(explore_name, FirstMeasure(get_explore_by_name(index_, explore_name)),
                      required_joins, <<>>, DefaultLimit, TRUE, "") :
              required_joins \in SUBSET DeclaredJoinViews(project, explore_name) } :
          explore_name \in Range(DictKeys(index_.explores)) }

\* a plan for an explore the index does not hold
UnknownExplorePlan ==
  QueryPlan("shop.nowhere", <<>>, {}, <<>>, DefaultLimit, FALSE, "")

\* the plans build_sql is called on: the plan the planner has just
\* returned, the plan of an external planner, and the made up ones
PlansToBuild ==
  (IF result.op = "plan_query" /\ result.ret # NoPlan THEN {result.ret} ELSE {})
  \cup {PassThroughPlan, UnknownExplorePlan}
  \cup PassThroughPlans
  \cup HandPlans(lookml_project, index)

\* SQLBuilder.build_sql(plan), from its first statement to its return
BuildSql(plan) ==
  /\ NoCallRunning
  /\ table_aliases' = build_sql(lookml_project, index, table_aliases, plan)[2]
  /\ Returned("build_sql", plan,
              build_sql(lookml_project, index, table_aliases, plan)[1])
  /\ UNCHANGED <<lookml_files, lookml_project, index, max_joins, calls, llm_planner>>

ExploreNames == {"shop.users", "shop.nowhere"}

Next ==
  \/ \E query \in Queries : FindRelevantExplores(query)
  \/ \E explore_name \in ExploreNames, query \in Queries :
       FindRelevantFields(explore_name, query)
  \/ \E explore_name \in ExploreNames \cup {"shop.audit"} :
       GetExploreByName(explore_name)
  \/ \E query \in Queries : PlanQuery(query)
  \/ \E plan \in PlansToBuild : BuildSql(plan)

Spec == Init /\ [][Next]_vars

----------------------------------------------------------------------------
(* Two threads call build_sql on the builder of the engine, each once; the  *)
(* statements of the two calls interleave.                                  *)

\* the engines the concurrent calls are made on
InitConcurrent ==
  \E project \in { ProjectOf(knob) : knob \in { k \in Knobs : k.flaw = "none" } } :
    EngineOn(project, MaxJoinsLimit)

\* a caller enters build_sql(plan)
CallBuildSql(caller, plan) ==
  /\ calls[caller].pc = "idle"
  /\ calls' = [calls EXCEPT ![caller] = NewFrame(plan)]
  /\ UNCHANGED <<lookml_files, lookml_project, index, max_joins, table_aliases, result, llm_planner>>

\* the next statement of a call in progress
StepBuildSql(caller) ==
  /\ calls[caller].pc \notin {"idle", "done"}
  /\ calls' = [calls EXCEPT ![caller] =
                 BuildStep(lookml_project, index, calls[caller], table_aliases)[1]]
  /\ table_aliases' =
       BuildStep(lookml_project, index, calls[caller], table_aliases)[2]
  /\ UNCHANGED <<lookml_files, lookml_project, index, max_joins, result, llm_planner>>

NextConcurrent ==
  \/ \E caller \in Callers, plan \in HandPlans(lookml_project, index) \cup {PassThroughPlan} :
       CallBuildSql(caller, plan)
  \/ \E caller \in Callers : StepBuildSql(caller)

SpecConcurrent == InitConcurrent /\ [][NextConcurrent]_vars

----------------------------------------------------------------------------
(* SQLBuilder.enforce_limit on SQL texts, and on its own result *)

\* the most pieces a SQL text is made of
MaxPieces == 3

Pieces == {"SELECT 1 ", "x", "_", " ", "\n", "LIMIT", "limit", "5", "10;"}

RECURSIVE TextsOf(_)
TextsOf(n) ==
  IF n = 0 THEN {""}
  ELSE TextsOf(n - 1) \cup { text \o piece : text \in TextsOf(n - 1), piece \in Pieces }

SqlTexts == TextsOf(MaxPieces)

\* the values of default_limit: DEFAULT_LIMIT is any integer
DefaultLimits == {-1, 0, DefaultLimit}

InitEnforceLimit == EngineOn(UsersProject, MaxJoinsLimit)

\* SQLBuilder.enforce_limit(sql, default_limit)
EnforceLimit(sql, default_limit) ==
  /\ result.op = "none"
  /\ Returned("enforce_limit", <<sql, default_limit>>, enforce_limit(sql, default_limit))
  /\ UNCHANGED <<lookml_files, lookml_project, index, max_joins, table_aliases, calls, llm_planner>>

\* SQLBuilder.enforce_limit on what it returned, with the same default_limit
EnforceLimitAgain ==
  /\ result.op = "enforce_limit"
  /\ Returned("enforce_limit_again", <<result.ret, result.arg[2]>>,
              enforce_limit(result.ret, result.arg[2]))
  /\ UNCHANGED <<lookml_files, lookml_project, index, max_joins, table_aliases, calls, llm_planner>>

NextEnforceLimit ==
  \/ \E sql \in SqlTexts, default_limit \in DefaultLimits :
       EnforceLimit(sql, default_limit)
  \/ EnforceLimitAgain

SpecEnforceLimit == InitEnforceLimit /\ [][NextEnforceLimit]_vars

----------------------------------------------------------------------------
(* The mapper alone: aliases are set and cleared and expressions resolved,  *)
(* as the tests of FieldMapper do.                                          *)

ResolveExpressions ==
  {"", "${TABLE}.id", "COUNT(${TABLE}.id) - ${TABLE}.n",
   "${users.id} = ${orders.user_id}", "${id} ${}", "${a.b.c}${.x}",
   "${TABLE}.${name}", "${un"}

\* physical table names: sql_table_name is any text of the LookML file
ResolveTables == {"users", "ds\\users", "raw\\new"}

ResolveAliases == {"u"}

ResolveViews == {"users", "orders"}

ResolveMappings ==
  {EmptyDict,
   DictFrom(<<[k |-> "users.id", v |-> "users.pk"], [k |-> "user_id", v |-> "uid"]>>),
   DictFrom(<<[k |-> "id", v |-> "${name}"], [k |-> "a.b.c", v |-> "abc"],
              [k |-> "users..x", v |-> "dotx"]>>)}

InitResolve == EngineOn(UsersProject, MaxJoinsLimit)

\* FieldMapper.set_table_alias(table_name, alias)
SetTableAlias(table_name, alias) ==
  /\ table_aliases' = set_table_alias(table_aliases, table_name, alias)
  /\ Returned("set_table_alias", <<table_name, alias>>, "")
  /\ UNCHANGED <<lookml_files, lookml_project, index, max_joins, calls, llm_planner>>

\* FieldMapper.clear_aliases()
ClearAliases ==
  /\ table_aliases' = clear_aliases(table_aliases)
  /\ Returned("clear_aliases", <<>>, "")
  /\ UNCHANGED <<lookml_files, lookml_project, index, max_joins, calls, llm_planner>>

\* FieldMapper.resolve_lookml_expression(expression, table_name, view_name,
\* field_mappings): the text it returns, or the re.error it raises
ResolveLookmlExpression(expression, table_name, view_name, field_mappings) ==
  /\ Returned("resolve_lookml_expression",
              <<expression, table_name, view_name, field_mappings>>,
              IF resolve_raises(table_aliases, expression, table_name)
              THEN [status |-> "error", text |-> ""]
              ELSE [status |-> "ok",
                    text |-> resolve_lookml_expression(table_aliases, expression,
                               table_name, view_name, field_mappings)])
  /\ UNCHANGED <<lookml_files, lookml_project, index, max_joins, table_aliases, calls, llm_planner>>

NextResolve ==
  \/ \E table_name \in ResolveTables, alias \in ResolveAliases :
       SetTableAlias(table_name, alias)
  \/ ClearAliases
  \/ \E expression \in ResolveExpressions, table_name \in ResolveTables,
        view_name \in ResolveViews, field_mappings \in ResolveMappings :
       ResolveLookmlExpression(expression, table_name, view_name, field_mappings)

SpecResolve == InitResolve /\ [][NextResolve]_vars

----------------------------------------------------------------------------
(* The parser alone: a repository of files is parsed into a project and the *)
(* project is flattened, as the tests of LookMLParser do.                   *)

\* the explore users of the model files
UsersExploreData ==
  ExploreData("users", "", "", <<JoinData("orders", "", "${users.id} = ${orders.user_id}", "")>>)

UsersViewData(sql_table_name) ==
  ViewData("users", sql_table_name,
    <<FieldData("id", "number", "${TABLE}.id", "", "yes"),
      FieldData("name", "string", "${TABLE}.name", "no", "")>>,
    <<[FieldData("created", "time", "${TABLE}.created_at", "", "")
         EXCEPT !.timeframes = <<"date", "week">>]>>,
    <<FieldData("count", "count", "${TABLE}.id", "", "")>>)

OrdersViewData ==
  ViewData("orders", "proj.ds.orders",
    <<FieldData("id", "number", "${TABLE}.id", "", "yes"),
      FieldData("status", "string", "${TABLE}.status", "Yes", "")>>,
    <<>>,
    <<FieldData("total", "sum", "${TABLE}.amount", "", "")>>)

\* a view block with a measure whose hidden is neither yes nor no
BrokenViewData ==
  ViewData("refunds", "proj.ds.refunds", <<>>, <<>>,
    <<FieldData("total", "sum", "${TABLE}.amount", "maybe", "")>>)

\* The model files: shop; a second shop in a directory, with a view users of
\* its own; a model whose name and explore give the key of an explore of
\* shop, with a view users of its own; a model with a broken view block.
ModelFiles ==
  {LookMLFile("shop.model.lkml", TRUE,
     <<UsersExploreData, ExploreData("eu.model.users", "users", "no", <<>>)>>, <<>>),
   LookMLFile("crm/shop.model.lkml", TRUE,
     <<ExploreData("accounts", "users", "", <<>>)>>, <<UsersViewData("crm.users")>>),
   LookMLFile("shop.model.eu.model.lkml", TRUE,
     <<UsersExploreData>>, <<UsersViewData("eu.users")>>),
   LookMLFile("bad.model.lkml", TRUE,
     <<ExploreData("refunds", "", "", <<>>)>>, <<OrdersViewData, BrokenViewData>>)}

\* The view files: users; orders, followed by a broken block; another users
\* in a directory; a file lkml.load cannot read.
ViewFiles ==
  {LookMLFile("users.view.lkml", TRUE, <<>>, <<UsersViewData("public.users")>>),
   LookMLFile("orders.view.lkml", TRUE, <<>>, <<OrdersViewData, BrokenViewData>>),
   LookMLFile("legacy/users.view.lkml", TRUE, <<>>, <<UsersViewData("legacy.users")>>),
   LookMLFile("notes.view.lkml", FALSE, <<>>, <<>>)}

\* the most model files, and the most view files, of a repository
MaxFilesOfAKind == 2

Repositories ==
  { model_files \cup view_files :
      model_files \in { S \in SUBSET ModelFiles : Cardinality(S) <= MaxFilesOfAKind },
      view_files \in { S \in SUBSET ViewFiles : Cardinality(S) <= MaxFilesOfAKind } }

\* the files of a repository a glob pattern "**/*<suffix>" matches
Glob(files, suffix) == { file \in files : EndsWith(file.path, suffix) }

\* the orders in which a glob can yield the files: the order of the
\* directory entries, which is the file system's
Orderings(files) ==
  { order \in [1..Cardinality(files) -> files] : Range(order) = files }

InitParse ==
  /\ lookml_files \in Repositories
  /\ lookml_project = LookMLProject(<<>>, <<>>)
  /\ index = build_index(LookMLProject(<<>>, <<>>))
  /\ max_joins = MaxJoinsLimit
  /\ table_aliases = EmptyDict
  /\ result = NoResult
  /\ calls = [caller \in Callers |-> IdleFrame]
  /\ llm_planner = NoLLMPlanner

\* LookMLParser(repo_path).parse_project(); the method has no raise that
\* its two try blocks do not catch
ParseProject(model_files, view_files) ==
  /\ lookml_project' = parse_project(model_files, view_files)
  /\ Returned("parse_project", <<model_files, view_files>>,
              [status |-> "ok", value |-> parse_project(model_files, view_files)])
  /\ UNCHANGED <<lookml_files, index, max_joins, table_aliases, calls, llm_planner>>

\* LookMLProject.get_all_views(); the method logs nothing
GetAllViews ==
  /\ Returned("get_all_views", <<>>,
              [status |-> "ok", logged |-> <<>>, value |-> get_all_views(lookml_project)])
  /\ UNCHANGED <<lookml_files, lookml_project, index, max_joins, table_aliases, calls, llm_planner>>

\* LookMLProject.get_all_explores(); the method logs nothing
GetAllExplores ==
  /\ Returned("get_all_explores", <<>>,
              [status |-> "ok", logged |-> <<>>, value |-> get_all_explores(lookml_project)])
  /\ UNCHANGED <<lookml_files, lookml_project, index, max_joins, table_aliases, calls, llm_planner>>

NextParse ==
  \/ \E model_files \in Orderings(Glob(lookml_files, ".model.lkml")),
        view_files \in Orderings(Glob(lookml_files, ".view.lkml")) :
       ParseProject(model_files, view_files)
  \/ GetAllViews
  \/ GetAllExplores

SpecParse == InitParse /\ [][NextParse]_vars

----------------------------------------------------------------------------
(* TextToSQLEngine.generate_sql on the initialized engine, with the         *)
(* rule-based planner: src/main.py.  The result is the dict the method      *)
(* returns, None written "" and validation_passed None written "none";      *)
(* called lists the methods of the planner, the builder and the validator   *)
(* the call went into.                                                      *)

\* the result dict as generate_sql sets it up before the try block
NewEngineResult(query) ==
  [query |-> query, sql |-> "", explore_used |-> "", fields_selected |-> <<>>,
   joins_required |-> {}, limit_applied |-> FALSE, validation_passed |-> "none",
   error |-> "", status |-> "returned", called |-> <<"plan_query">>]

\* what SQLValidator.validate_sql returns for the SQL: the dry run passes,
\* or it fails or raises; "off" is the engine without a validator
Validations == {"off", "valid", "invalid"}

\* generate_sql from `sql = self.sql_builder.build_sql(plan)` on, built being
\* the finished frame of that call
engine_result_of_build(query, plan_, built, validation, default_limit) ==
  IF built.status = "error"
  THEN [NewEngineResult(query) EXCEPT
          !.error = built.error, !.called = <<"plan_query", "build_sql">>]
  ELSE [NewEngineResult(query) EXCEPT
          !.sql = enforce_limit(built.sql, default_limit),
          !.limit_applied = enforce_limit(built.sql, default_limit) # built.sql,
          !.validation_passed = validation,
          !.error = IF validation = "invalid"
                    THEN "SQL validation failed - check syntax and references" ELSE "",
          !.explore_used = plan_.explore_name,
          !.fields_selected = [i \in 1..Len(plan_.selected_fields) |->
                                 qualified_name(plan_.selected_fields[i])],
          !.joins_required = plan_.required_joins,
          !.called = <<"plan_query", "build_sql", "enforce_limit">>
                     \o (IF validation = "off" THEN <<>> ELSE <<"validate_sql">>)]

\* generate_sql without `if not plan: return result`: build_sql is called on
\* None and the AttributeError it raises is caught
engine_result_unguarded(query, plan_, built, validation, default_limit) ==
  IF plan_ = NoPlan
  THEN [NewEngineResult(query) EXCEPT
          !.error = "'NoneType' object has no attribute 'llm_generated_sql'",
          !.called = <<"plan_query", "build_sql">>]
  ELSE engine_result_of_build(query, plan_, built, validation, default_limit)

\* generate_sql after plan_query has returned plan_; built is the finished
\* frame of build_sql(plan_), read only when there is a plan
engine_result(query, plan_, built, validation, default_limit) ==
  IF plan_ = NoPlan
  THEN [NewEngineResult(query) EXCEPT !.error = "Could not generate query plan from input"]
  ELSE engine_result_of_build(query, plan_, built, validation, default_limit)

\* TextToSQLEngine.generate_sql(query)
GenerateSql(query, validation) ==
  /\ NoCallRunning
  /\ \E plan \in plan_query(index, max_joins, query, DefaultLimit) :
       /\ Returned("generate_sql", query,
                   engine_result(query, plan,
                                 IF plan = NoPlan THEN NewFrame(plan)
                                 ELSE build_sql(lookml_project, index, table_aliases, plan)[1],
                                 validation, DefaultLimit))
       /\ table_aliases' = IF plan = NoPlan THEN table_aliases
                           ELSE build_sql(lookml_project, index, table_aliases, plan)[2]
  /\ index' = IndexAfterLookups(index, extract_query_terms(query))
  /\ UNCHANGED <<lookml_files, lookml_project, max_joins, calls, llm_planner>>

NextGenerate == \E query \in Queries, validation \in Validations : GenerateSql(query, validation)

SpecGenerate == Init /\ [][NextGenerate]_vars

----------------------------------------------------------------------------
(* The planner on explores with many measures: the view metrics has up to   *)
(* MaxMeasures measures, all named total_..., and the explore metrics may   *)
(* join the view users.                                                     *)

\* the most measures of the view metrics
MaxMeasures == 10

\* the n-th measure of the view metrics
TotalMeasure(n) ==
  LookMLMeasure("total_" \o CharAt("abcdefghijklmnopqrstuvwxyz", n), "sum",
                "SUM(${TABLE}.amount_" \o CharAt("abcdefghijklmnopqrstuvwxyz", n) \o ")",
                "", FALSE)

\* the view metrics: a dimension day, if it has one, and its first measures
MetricsView(measures, dimension) ==
  LookMLView("metrics", "proj.ds.metrics",
    IF dimension
    THEN <<LookMLDimension("day", "date", "${TABLE}.day", "", FALSE, FALSE)>> ELSE <<>>,
    [n \in 1..measures |-> TotalMeasure(n)])

\* what varies between the projects: the number of measures of metrics,
\* whether metrics has a dimension, whether the explore joins users
MetricsKnobs == [measures : 0..MaxMeasures, dimension : BOOLEAN, join : BOOLEAN]

MetricsProject(knob) ==
  LookMLProject(
    <<LookMLModel("shop", <<>>,
        <<LookMLExplore("metrics", "metrics", "",
            IF knob.join
            THEN <<LookMLJoin("users", "left_outer", "${metrics.user_id} = ${users.id}")>>
            ELSE <<>>)>>)>>,
    <<MetricsView(knob.measures, knob.dimension)>>
    \o (IF knob.join THEN <<UsersView>> ELSE <<>>))

\* the requests: one that names the measures, one that names the measures
\* and a dimension, one that names nothing of the explore, and requests
\* with two limits and with the limit 0
MetricsQueries ==
  {"total per day", "the total of everything", "zzz top 0",
   "Total TOP 7 limit 5", "first 3 total top 7", "limit 0 total"}

InitPlanner ==
  \E knob \in MetricsKnobs : EngineOn(MetricsProject(knob), MaxJoinsLimit)

NextPlanner == \E query \in MetricsQueries : PlanQuery(query)

SpecPlanner == InitPlanner /\ [][NextPlanner]_vars

----------------------------------------------------------------------------
(* The claims *)

\* the measure count of the view users as the index holds it
UsersCount ==
  DictGet(get_explore_by_name(index, "shop.users").available_fields, "users.count")

\* build_sql has returned for the plan that selects only the measure count
\* of the project of the one view users: no filters, limit 100, aggregation
UsersCountBuilt ==
  /\ lookml_project = UsersProject
  /\ result.op = "build_sql"
  /\ result.arg = QueryPlan("shop.users", <<UsersCount>>, {}, <<>>, 100, TRUE, "")

\* C1 as stated: for the project of the one view users and the plan that
\* selects only count, build_sql returns the five lines SELECT,
\* COUNT(u.id) AS count, FROM users AS u, GROUP BY with an empty list,
\* LIMIT 100.
C1_FiveLines ==
  UsersCountBuilt =>
    result.ret.sql =
      "SELECT\n  COUNT(u.id) AS count\nFROM users AS u\nGROUP BY \nLIMIT 100"

\* C1 as amended: for that project and plan build_sql returns the four
\* lines SELECT, COUNT(users.id) AS count, FROM users AS users, LIMIT 100:
\* the alias is the lower-cased view name, and there is no GROUP BY line
\* when no field other than a measure is selected.
C1_FourLines ==
  UsersCountBuilt =>
    /\ result.ret.status = "ok"
    /\ result.ret.sql =
         "SELECT\n  COUNT(users.id) AS count\nFROM users AS users\nLIMIT 100"

\* build_sql has returned SQL for the plan that selects only count
C1_Witness == UsersCountBuilt /\ result.ret.status = "ok"

\* the view has no physical table: it is declared nowhere, or it has no
\* sql_table_name
LacksTable(project, view_name) ==
  \/ ~DictHas(get_all_views(project), view_name)
  \/ DictGet(get_all_views(project), view_name).sql_table_name = ""

\* build_sql has returned for a rule-based plan of an explore of the index
RuleBasedBuilt ==
  /\ result.op = "build_sql"
  /\ result.arg.llm_generated_sql = ""
  /\ DictHas(index.explores, result.arg.explore_name)

\* C2: when required_joins of the plan holds a view that the explore
\* declares as a join and that has no physical table, build_sql ends in an
\* error; it does not return SQL without the join.
C2_MissingJoinTableIsAnError ==
  (/\ RuleBasedBuilt
   /\ \E view_name \in result.arg.required_joins
                       \cap DeclaredJoinViews(lookml_project, result.arg.explore_name) :
        LacksTable(lookml_project, view_name))
  => result.ret.status = "error"

\* plan_query has returned on an index of at least one explore
PlannedOnExplores == result.op = "plan_query" /\ Len(index.explores) > 0

\* C3 as stated: when the index holds at least one explore, plan_query
\* returns a plan and not a failure.
C3_AlwaysAPlan == PlannedOnExplores => result.ret # NoPlan

\* the explore plan_query chooses for the request by the rule of the claim:
\* the best scoring one, the first of the index when none scores
ChosenExplore(query) ==
  IF find_relevant_explores(index, extract_query_terms(query)) = <<>>
  THEN index.explores[1].k
  ELSE find_relevant_explores(index, extract_query_terms(query))[1].name

\* the first five fields of an explore that are not hidden
FirstFiveVisible(explore_info) ==
  SubSeq(SelectSeq(DictValues(explore_info.available_fields), LAMBDA f : ~f.hidden),
         1, Min(5, Len(SelectSeq(DictValues(explore_info.available_fields),
                                 LAMBDA f : ~f.hidden))))

\* C3 as amended: when the index holds at least one explore, plan_query
\* plans for the best scoring explore, for the first explore of the index
\* when none scores; it returns a plan when that explore has an available
\* field and no plan when it has none; and when no field of the explore
\* scores, the plan selects the first five non-hidden fields of the explore.
C3_APlanWhenTheExploreHasFields ==
  PlannedOnExplores =>
    /\ result.ret # NoPlan
         <=> Len(get_explore_by_name(index, ChosenExplore(result.arg)).available_fields) > 0
    /\ result.ret # NoPlan =>
         /\ result.ret.explore_name = ChosenExplore(result.arg)
         /\ find_relevant_fields(index, result.ret.explore_name,
                                 extract_query_terms(result.arg)) = <<>>
              => result.ret.selected_fields
                   = FirstFiveVisible(get_explore_by_name(index, result.ret.explore_name))

\* a plan from both fallbacks: no explore scored and no field scored
C3_Witness ==
  /\ PlannedOnExplores
  /\ result.ret # NoPlan
  /\ find_relevant_explores(index, extract_query_terms(result.arg)) = <<>>
  /\ Len(result.ret.selected_fields) = 5

\* C4: with two build_sql calls interleaved on the one mapper, each
\* expression a call resolves sees for its table an alias exactly when the
\* call itself has registered one: the other call neither adds nor removes
\* an alias the call sees.
C4_CallsSeeOnlyTheirOwnAliases ==
  \A caller \in Callers :
    calls[caller].pc # "idle" =>
      \A resolution \in calls[caller].resolutions :
        resolution.aliased = resolution.own

\* C5: in a sequence of build_sql calls no expression is resolved with an
\* alias that an earlier call registered, and once a call has returned no
\* alias that it registered is still registered.
C5_AliasesClearedBetweenBuilds ==
  result.op = "build_sql" =>
    /\ \A resolution \in result.ret.resolutions :
         resolution.aliased => resolution.own
    /\ \A registration \in result.ret.registered :
         ~DictHas(table_aliases, registration[1])

\* C6: whatever operations have been called, the index is as the
\* constructor built it from the project: explores, available fields, join
\* graph, join conditions and glossary.
C6_IndexStaysAsBuilt == index = build_index(lookml_project)

\* a lookup of a term the glossary does not hold has returned, and a plan
\* has been made or SQL built in other runs
C6_Witness ==
  /\ result.op = "find_relevant_fields"
  /\ DictHas(index.explores, result.arg[1])
  /\ \E term \in Range(result.arg[2]) : ~DictHas(index.field_glossary, term)
  /\ Len(result.ret) > 0

\* plan_query has returned a plan
Planned == result.op = "plan_query" /\ result.ret # NoPlan

\* C7 as stated: every plan plan_query returns has at most max_joins views
\* in required_joins, for every configured max_joins.
C7_AtMostMaxJoins ==
  Planned => Cardinality(result.ret.required_joins) <= max_joins

\* C7 as amended: every plan plan_query returns has at most max_joins views
\* in required_joins when the configured max_joins is not negative.
C7_AtMostMaxJoinsWhenNotNegative ==
  Planned /\ max_joins >= 0 =>
    Cardinality(result.ret.required_joins) <= max_joins

\* a plan whose fields need two joined views, of which max_joins keeps one
C7_Witness ==
  /\ Planned
  /\ max_joins = 1
  /\ Cardinality(RequiredViews(get_explore_by_name(index, result.ret.explore_name),
                               result.ret.selected_fields)) = 2
  /\ Cardinality(result.ret.required_joins) = 1

\* the text holds a clause LIMIT n: the word limit in any case, not
\* preceded by a word character, then white space, then digits not
\* followed by a word character
HasLimitClause(sql) ==
  \E i \in 1..Len(sql), j \in 1..Len(sql), k \in 1..Len(sql) :
    /\ i + 5 < j /\ j <= k
    /\ StrLower(SubSeq(sql, i, i + 4)) = "limit"
    /\ i = 1 \/ ~IsWordChar(CharAt(sql, i - 1))
    /\ \A n \in (i + 5)..(j - 1) : IsSpace(CharAt(sql, n))
    /\ \A n \in j..k : IsDigit(CharAt(sql, n))
    /\ k = Len(sql) \/ ~IsWordChar(CharAt(sql, k + 1))

\* what enforce_limit returns by the rule of the claim
LimitEnforced(sql, default_limit) ==
  IF HasLimitClause(sql) THEN sql
  ELSE sql \o "\nLIMIT " \o ToString(default_limit)

\* C8 as stated: enforce_limit returns s unchanged when s holds a clause
\* LIMIT n in any case and s with LIMIT N appended otherwise, and applied to
\* its own result with the same N it returns that result, for every s and N.
C8_Idempotent ==
  /\ result.op = "enforce_limit" =>
       result.ret = LimitEnforced(result.arg[1], result.arg[2])
  /\ result.op = "enforce_limit_again" => result.ret = result.arg[1]

\* C8 as amended: enforce_limit returns s unchanged when s holds a clause
\* LIMIT n in any case and s with LIMIT N appended otherwise, for every s
\* and N; applied to its own result with the same N it returns that result
\* for every s and every N that is not negative.
C8_IdempotentWhenNotNegative ==
  /\ result.op = "enforce_limit" =>
       result.ret = LimitEnforced(result.arg[1], result.arg[2])
  /\ result.op = "enforce_limit_again" /\ result.arg[2] >= 0 =>
       result.ret = result.arg[1]

\* enforce_limit has been applied to a text to which it had appended
\* LIMIT 100, for it held limit5 and no LIMIT n
C8_Witness ==
  /\ result.op = "enforce_limit_again"
  /\ result.arg = <<"SELECT 1 limit5\nLIMIT 100", 100>>
  /\ result.ret = "SELECT 1 limit5\nLIMIT 100"

\* the views whose fields the explore merges: its base view and the views
\* it joins, those that are declared
MergedViews(project, explore_info) ==
  { view_name \in {explore_info.base_view} \cup Range(DictKeys(explore_info.join_graph)) :
      DictHas(get_all_views(project), view_name) }

\* the dimensions and measures, not hidden, that the views declare: view
\* name, kind and name of each
VisibleDeclarations(project, view_names) ==
  UNION { { <<view_name, "dimension", d.name>> :
              d \in { e \in Range(DictValues(DictGet(get_all_views(project), view_name)
                                               .dimensions)) : ~e.hidden } }
          \cup
          { <<view_name, "measure", m.name>> :
              m \in { e \in Range(DictValues(DictGet(get_all_views(project), view_name)
                                               .measures)) : ~e.hidden } } :
          view_name \in view_names }

\* C9: in every explore of the index each key of available_fields is view
\* name, dot, field name of its FieldInfo, and no two of the fields merged
\* into the explore share a qualified name: every dimension and measure of
\* the merged views that is not hidden has an entry of its own.
C9_QualifiedNamesUnique ==
  \A explore_info \in Range(DictValues(index.explores)) :
    /\ \A entry \in Range(explore_info.available_fields) :
         entry.k = entry.v.view_name \o "." \o entry.v.name
    /\ Cardinality(VisibleDeclarations(lookml_project,
                                       MergedViews(lookml_project, explore_info)))
         = Len(explore_info.available_fields)

\* the declaration of a field of the index in the project
DeclarationOf(project, field) ==
  DictGet(IF field.field_type = "dimension"
          THEN DictGet(get_all_views(project), field.view_name).dimensions
          ELSE DictGet(get_all_views(project), field.view_name).measures,
          field.name)

\* the field is marked hidden, in the index or where it is declared
MarkedHidden(project, field) ==
  field.hidden \/ DeclarationOf(project, field).hidden

\* C10: no field marked hidden is among the available_fields of an explore
\* of the index, and no plan that plan_query returns selects a field
\* marked hidden.
C10_HiddenFieldsNeverOffered ==
  /\ \A explore_info \in Range(DictValues(index.explores)) :
       \A field \in Range(DictValues(explore_info.available_fields)) :
         ~MarkedHidden(lookml_project, field)
  /\ Planned =>
       \A field \in Range(result.ret.selected_fields) :
         ~MarkedHidden(lookml_project, field)

\* a plan from the five-field fallback on a project whose view orders hides
\* status and total: the plan selects created of orders, declared after
\* the hidden status
C10_Witness ==
  /\ Planned
  /\ \E view \in Range(DictValues(get_all_views(lookml_project))) :
       \E d \in Range(DictValues(view.dimensions)) : d.hidden
  /\ find_relevant_fields(index, result.ret.explore_name,
                          extract_query_terms(result.arg)) = <<>>
  /\ \E field \in Range(result.ret.selected_fields) :
       field.view_name = "orders" /\ field.name = "created"

\* build_sql has returned for a plan that carries pre-built SQL
PassedThrough == result.op = "build_sql" /\ result.arg.llm_generated_sql # ""

\* text is sql without the white space at its two ends
TrimmedOf(sql, text) ==
  \E i \in 1..(Len(sql) + 1), j \in 0..Len(sql) :
    /\ text = SubSeq(sql, i, j)
    /\ \A n \in 1..(i - 1) : IsSpace(CharAt(sql, n))
    /\ \A n \in (j + 1)..Len(sql) : IsSpace(CharAt(sql, n))
    /\ i <= j => ~IsSpace(CharAt(sql, i)) /\ ~IsSpace(CharAt(sql, j))

\* C11: for a plan that carries pre-built SQL build_sql returns that text
\* without the white space at its ends, whatever the explore name, fields,
\* joins, filters and limit of the plan: it raises for no explore, builds
\* no clause, resolves no expression and registers no alias.
C11_PreBuiltSqlPassedThrough ==
  PassedThrough =>
    /\ result.ret.status = "ok"
    /\ TrimmedOf(result.arg.llm_generated_sql, result.ret.sql)
    /\ result.ret.select_items = <<>> /\ result.ret.from_clause = ""
    /\ result.ret.join_clauses = <<>> /\ result.ret.where_clause = ""
    /\ result.ret.resolutions = {} /\ result.ret.registered = {}

\* pre-built SQL with white space at both ends has been passed through for
\* a plan whose explore the index does not hold, with a field and a join
C11_Witness ==
  /\ PassedThrough
  /\ result.arg.llm_generated_sql = "  SELECT 1\n"
  /\ result.arg.explore_name = "shop.nowhere"
  /\ Len(result.arg.selected_fields) = 1
  /\ result.ret.sql = "SELECT 1"

\* resolve_lookml_expression has been called
Resolved == result.op = "resolve_lookml_expression"

\* the table reference of the call: the alias registered for the table
\* name, the table name when none is registered
TableReference == DictGetOr(table_aliases, result.arg[2], result.arg[2])

\* C12: resolve_lookml_expression returns the expression with every
\* ${TABLE} token replaced by the alias registered for the table name, by
\* the table name when none is registered (seen on calls with no field
\* mappings, where every other token stays as written).
C12_TableTokensReplaced ==
  Resolved /\ result.arg[4] = EmptyDict =>
    /\ result.ret.status = "ok"
    /\ result.ret.text = ReplaceAll(result.arg[1], "${TABLE}", TableReference)

\* the key of a token by the rule of the claim: the text of ${view.field}
\* itself, the current view and the field for ${field}
ExactKey(content, current_view) ==
  IF \E n \in 2..(Len(content) - 1) : CharAt(content, n) = "."
  THEN content
  ELSE current_view \o "." \o content

\* the bare field of a token: what follows the first dot of ${view.field},
\* the text of ${field}
BareKey(content, current_view) ==
  IF ExactKey(content, current_view) = content
  THEN SubSeq(content,
              SetMin({ n \in 2..(Len(content) - 1) : CharAt(content, n) = "." }) + 1,
              Len(content))
  ELSE content

\* what a token becomes by the rule of the claim
TokenValue(content, current_view, field_mappings) ==
  IF DictHas(field_mappings, ExactKey(content, current_view))
  THEN DictGet(field_mappings, ExactKey(content, current_view))
  ELSE IF DictHas(field_mappings, BareKey(content, current_view))
  THEN DictGet(field_mappings, BareKey(content, current_view))
  ELSE "${" \o content \o "}"

\* the text read from position i on, every token ${...} of at least one
\* character replaced by its value
RECURSIVE TokensReplacedFrom(_, _, _, _)
TokensReplacedFrom(text, i, current_view, field_mappings) ==
  IF i > Len(text) THEN ""
  ELSE IF /\ StartsWithAt(text, i, "${")
          /\ \E j \in (i + 3)..Len(text) :
               CharAt(text, j) = "}" /\ CharAt(text, i + 2) # "}"
  THEN TokenValue(SubSeq(text, i + 2,
                         SetMin({ j \in (i + 3)..Len(text) : CharAt(text, j) = "}" }) - 1),
                  current_view, field_mappings)
       \o TokensReplacedFrom(text,
             SetMin({ j \in (i + 3)..Len(text) : CharAt(text, j) = "}" }) + 1,
             current_view, field_mappings)
  ELSE CharAt(text, i) \o TokensReplacedFrom(text, i + 1, current_view, field_mappings)

\* C13: resolve_lookml_expression never fails on a field reference: it
\* returns the text in which each token ${view.field} or ${field} is the
\* mapping's value for the key view.field, else its value for the bare
\* field, else the token as written.
C13_NeverFailsOnFieldReferences ==
  Resolved =>
    /\ result.ret.status = "ok"
    /\ result.ret.text =
         TokensReplacedFrom(
           resolve_table_references(table_aliases, result.arg[1], result.arg[2]),
           1, result.arg[3], result.arg[4])

\* where a project holds a view of the name: among its standalone views
\* (written "") and in its models (written by their names)
ViewHolders(project, name) ==
  (IF DictHas(project.views, name) THEN {""} ELSE {})
  \cup { project.models[i].k : i \in { j \in 1..Len(project.models) :
                                       DictHas(project.models[j].v.views, name) } }

\* two views of the project have the same name
ViewCollision(project) ==
  \E name \in Range(DictKeys(get_all_views(project))) :
    Cardinality(ViewHolders(project, name)) >= 2

\* two explores of the project have the same model-prefixed key
ExploreKeyCollision(project) ==
  \E i, j \in 1..Len(project.models) :
    /\ i # j
    /\ Range(DictKeys(PrefixedExplores(project.models[i].v)))
       \cap Range(DictKeys(PrefixedExplores(project.models[j].v))) # {}

\* the call told its caller of a defect: it raised or it logged
Surfaced(ret) == ret.status # "ok" \/ ret.logged # <<>>

\* C14: when the project is flattened, two views with the same name and two
\* explores with the same model-prefixed key are reported: get_all_views
\* and get_all_explores do not return the map of a project with such a
\* collision without a signal.
C14_CollisionsSurfaced ==
  /\ result.op = "get_all_views" /\ ViewCollision(lookml_project) => Surfaced(result.ret)
  /\ result.op = "get_all_explores" /\ ExploreKeyCollision(lookml_project)
       => Surfaced(result.ret)

\* parsing the file raises nowhere
WellFormed(file) ==
  file.loads /\ AllOk(ParsedExplores(file)) /\ AllOk(ParsedViews(file))

\* the view is one of a well-formed file of the list
FromWellFormedViewFile(view, files) ==
  \E file \in Range(files) :
    /\ WellFormed(file)
    /\ \E b \in 1..Len(file.views) : parse_view(file.views[b]).value = view

\* the model is the one of a well-formed file of the list
FromWellFormedModelFile(model, files) ==
  \E file \in Range(files) : WellFormed(file) /\ parse_model_file(file).value = model

\* C15: parse_project does not fail on a malformed file; the project it
\* returns holds no model and no view of a file whose parsing raises, and
\* it is the project parse_project returns when the malformed files are
\* not there.
C15_MalformedFilesSkipped ==
  result.op = "parse_project" =>
    /\ result.ret.status = "ok"
    /\ \A i \in 1..Len(result.ret.value.views) :
         FromWellFormedViewFile(result.ret.value.views[i].v, result.arg[2])
    /\ \A i \in 1..Len(result.ret.value.models) :
         FromWellFormedModelFile(result.ret.value.models[i].v, result.arg[1])
    /\ result.ret.value = parse_project(SelectSeq(result.arg[1], WellFormed),
                                        SelectSeq(result.arg[2], WellFormed))

\* a repository is parsed that has a view file with a well-formed view
\* before a malformed block, a model file with a malformed block, and files
\* that give the project a model and a view
C15_Witness ==
  /\ result.op = "parse_project"
  /\ \E file \in Range(result.arg[2]) :
       ~WellFormed(file) /\ Len(file.views) >= 2 /\ parse_view(file.views[1]).ok
  /\ \E file \in Range(result.arg[1]) : ~WellFormed(file)
  /\ Len(result.ret.value.views) >= 1
  /\ Len(result.ret.value.models) >= 1

\* the planner has no plan for the request of the generate_sql call that
\* returned last
PlanningFailed ==
  result.op = "generate_sql" /\ plan_query(index, max_joins, result.arg, DefaultLimit) = {NoPlan}

OfType(fields, field_type) == SelectSeq(fields, LAMBDA f : f.field_type = field_type)

\* the explore of the plan offers a dimension
ExploreHasDimension(plan_) ==
  Len(OfType(DictValues(get_explore_by_name(index, plan_.explore_name).available_fields),
             "dimension")) > 0

\* C17: a plan plan_query returns that selects a measure also selects a
\* dimension, when the explore of the plan has a non-hidden dimension.
C17_MeasuresComeWithADimension ==
  result.op = "plan_query" /\ result.ret # NoPlan
    /\ Len(OfType(result.ret.selected_fields, "measure")) > 0
    /\ ExploreHasDimension(result.ret)
    => Len(OfType(result.ret.selected_fields, "dimension")) > 0

\* the match of the pattern `word N` in the request
LimitMatch(query, word) ==
  Search(StrLower(query), <<WordBoundary, Lit(word), Ws, DigitsGroup>>)

\* the request has a match of one of the three patterns
NamesALimit(query) == \E word \in {"limit", "top", "first"} : LimitMatch(query, word).ok

\* the number of the first of the patterns `limit N`, `top N`, `first N`
\* that matches the request
NamedLimit(query) ==
  ParseInt(LimitMatch(query, CHOOSE word \in {"limit", "top", "first"} :
                        /\ LimitMatch(query, word).ok
                        /\ word = "top" => ~LimitMatch(query, "limit").ok
                        /\ word = "first" => ~LimitMatch(query, "limit").ok
                                             /\ ~LimitMatch(query, "top").ok).group)

\* C18: the limit of a plan is the number of the first pattern, in the
\* order limit, top, first, that matches the request, 0 included, and it is
\* default_limit only when none of the patterns matches.
C18_LimitIsTheOneNamed ==
  result.op = "plan_query" /\ result.ret # NoPlan =>
    result.ret.limit = IF NamesALimit(result.arg) THEN NamedLimit(result.arg)
                       ELSE DefaultLimit

\* the entries of the glossary for the term
GlossaryEntries(index_, term) == DictGetOr(index_.field_glossary, StrLower(term), <<>>)

\* the score the rule of C19 gives an explore: for each term, 2 when the
\* term is in the name of at least one available field, and 1 for each
\* glossary entry of the term that belongs to the explore
RECURSIVE RuledExploreScore(_, _, _)
RuledExploreScore(index_, explore_info, query_terms) ==
  IF Len(query_terms) = 0 THEN 0
  ELSE (IF \E n \in 1..Len(explore_info.available_fields) :
             Contains(StrLower(explore_info.available_fields[n].k), StrLower(query_terms[1]))
        THEN 2 ELSE 0)
       + Len(SelectSeq(GlossaryEntries(index_, query_terms[1]),
                       LAMBDA f : DictHas(explore_info.available_fields, qualified_name(f))))
       + RuledExploreScore(index_, explore_info, Tail(query_terms))

\* the scores of the list do not go up
ScoresDescend(scored) ==
  \A i, j \in 1..Len(scored) : i < j => scored[i].score >= scored[j].score

\* where a key stands in a dict
KeyPlace(d, key) == CHOOSE i \in 1..Len(d) : d[i].k = key

\* C19: find_relevant_explores returns the explores whose score is
\* positive, each with the score of the rule (2 once per term that is in
\* an available field's name, 1 per glossary entry of the term in the
\* explore), by descending score, explores of equal score in the order of
\* the index.
C19_ExploresScoredByTheRule ==
  result.op = "find_relevant_explores" =>
    /\ { result.ret[i].name : i \in 1..Len(result.ret) }
         = { index.explores[n].k : n \in { m \in 1..Len(index.explores) :
               RuledExploreScore(index, index.explores[m].v, result.arg) > 0 } }
    /\ \A i \in 1..Len(result.ret) :
         result.ret[i].score
           = RuledExploreScore(index, DictGet(index.explores, result.ret[i].name), result.arg)
    /\ ScoresDescend(result.ret)
    /\ \A i, j \in 1..Len(result.ret) :
         i < j /\ result.ret[i].score = result.ret[j].score
           => KeyPlace(index.explores, result.ret[i].name)
                < KeyPlace(index.explores, result.ret[j].name)

\* the score the rule of C20 gives the field at a key of the explore: for
\* each term, 3 when the term is in the bare name of the field and 1 when
\* the glossary list of the term holds the field
RECURSIVE RuledFieldScore(_, _, _, _)
RuledFieldScore(index_, explore_info, key, query_terms) ==
  IF Len(query_terms) = 0 THEN 0
  ELSE (IF Contains(StrLower(DictGet(explore_info.available_fields, key).name),
                    StrLower(query_terms[1]))
        THEN 3 ELSE 0)
       + (IF \E n \in 1..Len(GlossaryEntries(index_, query_terms[1])) :
               qualified_name(GlossaryEntries(index_, query_terms[1])[n]) = key
          THEN 1 ELSE 0)
       + RuledFieldScore(index_, explore_info, key, Tail(query_terms))

\* find_relevant_fields has returned for an explore of the index
FieldsScored ==
  result.op = "find_relevant_fields" /\ DictHas(index.explores, result.arg[1])

\* the score of the field of the key in a scored list, 0 when it is not
\* in the list
ScoreIn(scored, key) ==
  IF \E i \in 1..Len(scored) : qualified_name(scored[i].field) = key
  THEN scored[CHOOSE i \in 1..Len(scored) : qualified_name(scored[i].field) = key].score
  ELSE 0

\* find_relevant_fields has returned for the terms count and users and an
\* explore whose base view, users, has the fields id, name and count
CountOfUsersScored ==
  /\ FieldsScored
  /\ result.arg[2] = <<"count", "users">>
  /\ DictGet(index.explores, result.arg[1]).base_view = "users"
  /\ \A key \in {"users.id", "users.name", "users.count"} :
       DictHas(DictGet(index.explores, result.arg[1]).available_fields, key)

\* C20: find_relevant_fields returns the available fields of the explore
\* whose score is positive, each with the score of the rule (3 per term in
\* its bare name, 1 per term whose glossary list holds it), by descending
\* score; for the terms count and users and a base view with the fields
\* id, name and count, count is in the result and its score is at least
\* that of name.
C20_FieldsScoredByTheRule ==
  FieldsScored =>
    /\ { qualified_name(result.ret[i].field) : i \in 1..Len(result.ret) }
         = { key \in Range(DictKeys(DictGet(index.explores, result.arg[1]).available_fields)) :
               RuledFieldScore(index, DictGet(index.explores, result.arg[1]), key,
                               result.arg[2]) > 0 }
    /\ \A i \in 1..Len(result.ret) :
         /\ result.ret[i].score
              = RuledFieldScore(index, DictGet(index.explores, result.arg[1]),
                                qualified_name(result.ret[i].field), result.arg[2])
         /\ result.ret[i].field
              = DictGet(DictGet(index.explores, result.arg[1]).available_fields,
                        qualified_name(result.ret[i].field))
    /\ ScoresDescend(result.ret)
    /\ CountOfUsersScored
         => /\ ScoreIn(result.ret, "users.count") > 0
            /\ ScoreIn(result.ret, "users.count") >= ScoreIn(result.ret, "users.name")

\* fields are scored for the terms count and users, and fields are scored
\* with different scores, one by its name and by the glossary
C20_Witness ==
  /\ CountOfUsersScored
  /\ Len(result.ret) >= 1
  /\ \E i \in 1..Len(result.ret) : result.ret[i].score > FieldNameScore

\* the lines of a text
SqlLines(sql) ==
  LET breaks == { i \in 1..Len(sql) : CharAt(sql, i) = "\n" } \cup {0, Len(sql) + 1}
      starts == SelectSeq(Indices(Len(sql) + 1), LAMBDA i : i - 1 \in breaks)
  IN [n \in 1..Len(starts) |->
        SubSeq(sql, starts[n], SetMin({ b \in breaks : b >= starts[n] }) - 1)]

\* the JOIN clauses of a statement: its lines that hold the word JOIN
JoinLines(sql) == SelectSeq(SqlLines(sql), LAMBDA line : Contains(line, " JOIN "))

\* the keyword the rule of C21 gives a declared join kind
JoinKeyword(type) ==
  CASE type = "left_outer" -> "LEFT" [] type = "right_outer" -> "RIGHT"
    [] type = "full_outer" -> "FULL OUTER" [] type = "inner" -> "INNER"
    [] type = "cross" -> "CROSS" [] OTHER -> "LEFT"

\* the joins the explore of the plan declares, in the order of the declaration
DeclaredJoins(plan_) == DictGet(get_all_explores(lookml_project), plan_.explore_name).joins

\* build_sql has returned SQL for a rule-based plan of an explore of the index
RuleBasedSql == RuleBasedBuilt /\ result.ret.status = "ok"

\* the line is the JOIN clause of the join: its keyword, then JOIN, and the
\* view under its alias
IsClauseOf(line, join) ==
  /\ StartsWithAt(line, 1, JoinKeyword(join.type) \o " JOIN ")
  /\ Contains(line \o " ", " AS " \o get_table_alias(join.view_name) \o " ")

\* C21: the SQL build_sql assembles has exactly one JOIN clause for each
\* view of required_joins, the clauses in the order the explore declares
\* the joins, each with the keyword of the declared join kind.
C21_OneJoinClausePerRequiredView ==
  RuleBasedSql =>
    /\ Len(JoinLines(result.ret.sql)) = Cardinality(result.arg.required_joins)
    /\ \A n \in 1..Len(JoinLines(result.ret.sql)) :
         /\ n <= Len(SelectSeq(DeclaredJoins(result.arg),
                               LAMBDA join : join.view_name \in result.arg.required_joins))
         /\ IsClauseOf(JoinLines(result.ret.sql)[n],
                       SelectSeq(DeclaredJoins(result.arg),
                                 LAMBDA join : join.view_name \in result.arg.required_joins)[n])

\* the GROUP BY clauses of a statement: its lines that start with GROUP BY
GroupByLines(sql) == SelectSeq(SqlLines(sql), LAMBDA line : StartsWithAt(line, 1, "GROUP BY "))

\* the places in the list of the fields that are not measures, as the list
\* of a GROUP BY clause
GroupingPlaces(selected_fields) ==
  Join(", ", [n \in 1..Len(SelectSeq(Indices(Len(selected_fields)),
                            LAMBDA i : selected_fields[i].field_type # "measure")) |->
                ToString(SelectSeq(Indices(Len(selected_fields)),
                            LAMBDA i : selected_fields[i].field_type # "measure")[n])])

\* the plan selects a field of the type
Selects(plan_, field_type) == Len(OfType(plan_.selected_fields, field_type)) > 0

\* C22 as stated: the SQL has a GROUP BY clause exactly when the
\* aggregation flag of the plan is set, and the clause lists the places of
\* the selected fields that are not measures; a plan of plan_query has the
\* flag set exactly when it selects a measure.
C22_GroupByExactlyWhenFlag ==
  /\ RuleBasedSql =>
       /\ Len(GroupByLines(result.ret.sql)) > 0 <=> result.arg.has_aggregation
       /\ \A n \in 1..Len(GroupByLines(result.ret.sql)) :
            GroupByLines(result.ret.sql)[n]
              = "GROUP BY " \o GroupingPlaces(result.arg.selected_fields)
  /\ Planned => (result.ret.has_aggregation <=> Selects(result.ret, "measure"))

\* C22 as amended: the SQL has a GROUP BY clause, and one only, exactly when
\* the aggregation flag of the plan is set and a selected field is not a
\* measure; the clause lists, in selection order, the places of the
\* selected fields that are not measures; a plan of plan_query has the flag
\* set exactly when it selects a measure.
C22_GroupByWhenFlagAndGroupingField ==
  /\ RuleBasedSql =>
       /\ Len(GroupByLines(result.ret.sql))
            = IF result.arg.has_aggregation
                 /\ Len(OfType(result.arg.selected_fields, "measure"))
                      < Len(result.arg.selected_fields)
              THEN 1 ELSE 0
       /\ \A n \in 1..Len(GroupByLines(result.ret.sql)) :
            GroupByLines(result.ret.sql)[n]
              = "GROUP BY " \o GroupingPlaces(result.arg.selected_fields)
  /\ Planned => (result.ret.has_aggregation <=> Selects(result.ret, "measure"))

\* SQL with a GROUP BY clause for a plan that selects a measure before a
\* field that is not one
C22_Witness ==
  /\ RuleBasedSql
  /\ Len(GroupByLines(result.ret.sql)) = 1
  /\ \E i, j \in 1..Len(result.arg.selected_fields) :
       /\ i < j
       /\ result.arg.selected_fields[i].field_type = "measure"
       /\ result.arg.selected_fields[j].field_type # "measure"

----------------------------------------------------------------------------
(* The GroundingIndex built on views whose fields are simple references     *)
(* and computed expressions, over tables the warehouse knows and tables it  *)
(* does not: src/grounding/index.py                                         *)

\* the expressions of the fields: a known column, the same with blanks
\* around it, a column the table does not have, a computed expression
FieldExpressions ==
  {"${TABLE}.id", " ${TABLE}.id ", "${TABLE}.missing", "COUNT(${TABLE}.id)"}

\* the table references of the view: two spellings of a table of the
\* warehouse, a table the warehouse does not have, none
TableReferences == {"users", BQ \o "proj.ds.users" \o BQ, "proj.ds.unknown", ""}

GroundedView(table, dimension_sql, measure_sql) ==
  LookMLView("users", table,
    <<LookMLDimension("id", "number", dimension_sql, "User ID", FALSE, TRUE),
      LookMLDimension("name", "string", "${TABLE}.name", "User name", FALSE, FALSE)>>,
    <<LookMLMeasure("count", "count", measure_sql, "Count of users", FALSE)>>)

GroundedProjects ==
  { LookMLProject(
      <<LookMLModel("shop", <<>>, <<LookMLExplore("users", "users", "", <<>>)>>)>>,
      <<GroundedView(table, dimension_sql, measure_sql)>>) :
      table \in TableReferences,
      dimension_sql \in FieldExpressions, measure_sql \in FieldExpressions }

InitGrounding == \E project \in GroundedProjects : EngineOn(project, MaxJoinsLimit)

NextGrounding ==
  \/ \E explore_name \in {"shop.users", "shop.orders"} : GetExploreByName(explore_name)
  \/ \E query \in Queries : FindRelevantFields("shop.users", query)

SpecGrounding == InitGrounding /\ [][NextGrounding]_vars

\* the columns of the table of a field, as the metadata loaded for the
\* tables of the project has them; none when the table is not loaded
ColumnsOfTableOf(f) ==
  get_table_metadata_for_view([sql_table_name |-> f.table_name],
    load_metadata_for_tables(extract_referenced_tables(lookml_project)))

\* the fields of the explores of the index
IndexedFields ==
  UNION { Range(DictValues(index.explores[e].v.available_fields)) :
            e \in 1..Len(index.explores) }

\* the column c of an expression ${TABLE}.c, "" for any other expression
ReferencedColumn(expression) ==
  IF is_simple_column_reference(expression)
  THEN SubSeq(Strip(expression), 10, Len(Strip(expression))) ELSE ""

\* C23: a field of the index, dimension or measure, has the data type and
\* the description of the column c of its table exactly when its expression
\* is a simple reference ${TABLE}.c and the metadata of the table has c;
\* any other field has neither.
C23_PhysicalAttributesOfSimpleReferences ==
  \A f \in IndexedFields :
    IF DictHas(ColumnsOfTableOf(f), ReferencedColumn(f.sql_expression))
    THEN /\ f.bigquery_data_type
              = DictGet(ColumnsOfTableOf(f), ReferencedColumn(f.sql_expression)).data_type
         /\ f.bigquery_description
              = DictGet(ColumnsOfTableOf(f), ReferencedColumn(f.sql_expression)).description
    ELSE f.bigquery_data_type = "" /\ f.bigquery_description = ""

\* C24: in the index as built, the glossary has every field of every
\* explore under the field's own name in lower case, whatever the length of
\* the name; every key of the glossary is lower case; no list of the
\* glossary holds a field twice.
C24_GlossaryHoldsEveryFieldName ==
  /\ \A f \in IndexedFields : f \in Range(GlossaryEntries(index, f.name))
  /\ \A n \in 1..Len(index.field_glossary) :
       /\ index.field_glossary[n].k = StrLower(index.field_glossary[n].k)
       /\ \A i, j \in 1..Len(index.field_glossary[n].v) :
            index.field_glossary[n].v[i] = index.field_glossary[n].v[j] => i = j

----------------------------------------------------------------------------
(* LookMLParser on files whose dicts carry their blocks under the singular  *)
(* key, as a list or as one block, or under the plural key                  *)

Spellings == {"singular", "single", "plural"}

\* the blocks a dict of the spelling can carry: one block when the value is
\* a block and not a list
Spelled(blocks, spelling) == IF spelling = "single" THEN SubSeq(blocks, 1, 1) ELSE blocks

\* the explore users with its joins
SpelledExplore(spelling) ==
  [ExploreData("users", "", "",
     Spelled(<<JoinData("orders", "", "${users.id} = ${orders.user_id}", ""),
               JoinData("order-items", "inner", "${orders.id} = ${TABLE}.order_id", "")>>,
             spelling))
     EXCEPT !.spelling = spelling]

\* the view users with its dimensions, its dimension group and its measures
SpelledView(spelling) ==
  [ViewData("users", "users",
     Spelled(<<FieldData("id", "number", "${TABLE}.id", "", "yes"),
               FieldData("name", "string", "${TABLE}.name", "no", "")>>, spelling),
     Spelled(<<[FieldData("created", "time", "${TABLE}.created_at", "", "")
                  EXCEPT !.timeframes = <<"date", "week">>]>>, spelling),
     Spelled(<<FieldData("count", "count", "${TABLE}.id", "", ""),
               FieldData("newest", "max", "${TABLE}.created_at", "", "")>>, spelling))
     EXCEPT !.spelling = spelling]

SpelledModelFile(file_spelling, explore_spelling, view_spelling) ==
  [LookMLFile("shop.model.lkml", TRUE,
     Spelled(<<SpelledExplore(explore_spelling), ExploreData("accounts", "users", "", <<>>)>>,
             file_spelling),
     <<SpelledView(view_spelling)>>)
     EXCEPT !.spelling = file_spelling]

SpelledViewFile(file_spelling, view_spelling) ==
  [LookMLFile("users.view.lkml", TRUE, <<>>,
     Spelled(<<SpelledView(view_spelling), OrdersViewData>>, file_spelling))
     EXCEPT !.spelling = file_spelling]

SpelledRepositories ==
  { {SpelledModelFile(model_spelling, explore_spelling, view_spelling),
     SpelledViewFile(file_spelling, view_spelling)} :
      model_spelling \in Spellings, explore_spelling \in Spellings,
      view_spelling \in Spellings, file_spelling \in Spellings }

InitSpelling ==
  /\ lookml_files \in SpelledRepositories
  /\ lookml_project = LookMLProject(<<>>, <<>>)
  /\ index = build_index(LookMLProject(<<>>, <<>>))
  /\ max_joins = MaxJoinsLimit
  /\ table_aliases = EmptyDict
  /\ result = NoResult
  /\ calls = [caller \in Callers |-> IdleFrame]
  /\ llm_planner = NoLLMPlanner

SpecSpelling == InitSpelling /\ [][NextParse]_vars

\* a dict with the same blocks under the singular key, as a list
Singular(data) == [data EXCEPT !.spelling = "singular"]

\* a file with the same blocks, every dict of it carrying them under the
\* singular key as a list
SingularFile(file) ==
  [Singular(file) EXCEPT
     !.explores = [i \in 1..Len(file.explores) |-> Singular(file.explores[i])],
     !.views = [i \in 1..Len(file.views) |-> Singular(file.views[i])]]

SingularFiles(files) == [i \in 1..Len(files) |-> SingularFile(files[i])]

\* C25: the project parse_project returns is the one it returns for the
\* same blocks carried under the singular key as lists, whatever key and
\* form the dicts of the files carry their explores, views, dimensions,
\* dimension groups, measures and joins in: the lists of the project are
\* the same, joins under `joins` included, in the same order.
C25_SameListsForEveryKeySpelling ==
  result.op = "parse_project" =>
    result.ret.value
      = parse_project(SingularFiles(result.arg[1]), SingularFiles(result.arg[2]))

\* the joins the explore of a plan declares to the views of its selected
\* fields, in the order of the declaration
DeclaredRequiredJoins(plan_) ==
  SelectSeq(DeclaredJoins(plan_),
            LAMBDA join : join.view_name
                            \in RequiredViews(get_explore_by_name(index, plan_.explore_name),
                                              plan_.selected_fields))

\* C26: when the views of the selected fields are more than max_joins, the
\* required_joins of the plan are the first max_joins of them in the order
\* in which the explore declares its joins; the plan is then a function of
\* the index, the request, the default limit and max_joins, and two calls
\* return the same required_joins.
C26_KeptViewsInDeclaredOrder ==
  (/\ Planned
   /\ Cardinality(RequiredViews(get_explore_by_name(index, result.ret.explore_name),
                                result.ret.selected_fields)) > max_joins) =>
    result.ret.required_joins
      = { join.view_name :
            join \in Range(Take(DeclaredRequiredJoins(result.ret), max_joins)) }

\* the FROM clause and the JOIN clauses of a statement
TableLines(sql) ==
  SelectSeq(SqlLines(sql), LAMBDA line : StartsWithAt(line, 1, "FROM ")) \o JoinLines(sql)

\* the statement introduces the alias in its FROM clause or in a JOIN clause
Introduces(sql, alias) ==
  \E line \in Range(TableLines(sql)) :
    \E at \in 1..Len(line) : StartsWithAt(line \o " ", at, " AS " \o alias \o " ")

\* the item of the SELECT list of a field whose ${TABLE} stands for the alias
ItemUnderAlias(field, alias) ==
  "  " \o resolve_field_references(ReplaceAll(field.sql_expression, "${TABLE}", alias),
                                   field.view_name, EmptyDict)
       \o " AS " \o field.name

\* C27: in the SQL build_sql assembles for a rule-based plan, the item of
\* each selected field whose expression has ${TABLE} has in its place the
\* alias of the field's view, and the FROM clause or a JOIN clause of the
\* statement introduces that alias; the item has no raw table name and no
\* name the statement does not declare.
C27_SelectUsesDeclaredAlias ==
  RuleBasedSql =>
    \A i \in 1..Len(result.arg.selected_fields) :
      Contains(result.arg.selected_fields[i].sql_expression, "${TABLE}") =>
        /\ result.ret.select_items[i]
             = ItemUnderAlias(result.arg.selected_fields[i],
                              get_table_alias(result.arg.selected_fields[i].view_name))
        /\ Introduces(result.ret.sql,
                      get_table_alias(result.arg.selected_fields[i].view_name))

\* C28: in every plan plan_query returns, under every max_joins, the view
\* of each selected field is the base view of the explore of the plan or a
\* view of required_joins.
C28_SelectedFieldsOfJoinedViews ==
  Planned =>
    \A i \in 1..Len(result.ret.selected_fields) :
      result.ret.selected_fields[i].view_name
        \in {get_explore_by_name(index, result.ret.explore_name).base_view}
              \cup result.ret.required_joins

\* the fields an expression refers to with ${view.field} or ${field}, the
\* latter a field of the current view; ${TABLE} is no field reference
RECURSIVE FieldReferences(_, _)
FieldReferences(expression, current_view) ==
  IF Find(expression, "${", 1) = 0
     \/ Find(expression, "}", Find(expression, "${", 1) + 2) = 0
  THEN {}
  ELSE (IF SubSeq(expression, Find(expression, "${", 1) + 2,
                  Find(expression, "}", Find(expression, "${", 1) + 2) - 1) = "TABLE"
        THEN {}
        ELSE IF Contains(SubSeq(expression, Find(expression, "${", 1) + 2,
                                Find(expression, "}", Find(expression, "${", 1) + 2) - 1), ".")
        THEN {SubSeq(expression, Find(expression, "${", 1) + 2,
                     Find(expression, "}", Find(expression, "${", 1) + 2) - 1)}
        ELSE {current_view \o "."
                \o SubSeq(expression, Find(expression, "${", 1) + 2,
                          Find(expression, "}", Find(expression, "${", 1) + 2) - 1)})
       \cup FieldReferences(SubSeq(expression,
                                   Find(expression, "}", Find(expression, "${", 1) + 2) + 1,
                                   Len(expression)),
                            current_view)

\* the fields the views of the explore of a plan define, as view.field
FieldsOfExplore(plan_) ==
  UNION { { view_name \o "." \o name :
              name \in Range(DictKeys(DictGet(get_all_views(lookml_project), view_name).dimensions))
                       \cup Range(DictKeys(DictGet(get_all_views(lookml_project), view_name).measures)) } :
          view_name \in { v \in {get_explore_by_name(index, plan_.explore_name).base_view}
                                 \cup DeclaredJoinViews(lookml_project, plan_.explore_name) :
                            DictHas(get_all_views(lookml_project), v) } }

\* the joins of which build_sql emits a clause for the plan
EmittedJoins(plan_) ==
  SelectSeq(DeclaredJoins(plan_),
            LAMBDA join : /\ join.view_name \in plan_.required_joins
                          /\ ~LacksTable(lookml_project, join.view_name))

\* every field reference of the expressions of the selected fields and of
\* the ON conditions of the emitted joins is to a field of the explore
ReferencesDefined(plan_) ==
  /\ \A field \in Range(plan_.selected_fields) :
       FieldReferences(field.sql_expression, field.view_name) \subseteq FieldsOfExplore(plan_)
  /\ \A join \in Range(EmittedJoins(plan_)) :
       FieldReferences(join.sql_on, join.view_name) \subseteq FieldsOfExplore(plan_)

\* C29: the SQL build_sql assembles for a rule-based plan has no ${...}
\* left in it when every field reference of the expressions of the selected
\* fields and of the ON conditions of the emitted joins is to a field that
\* a view of the explore defines.
C29_NoPlaceholderLeft ==
  (RuleBasedSql /\ ReferencesDefined(result.arg)) => ~Contains(result.ret.sql, "${")

----------------------------------------------------------------------------
(* LLMQueryPlanner: src/llm/llm_planner.py.  The GeminiService, the         *)
(* SQLValidator and the schema analysis are given by what they return: a    *)
(* response is [raises, content], the validator says "ok", "error" or       *)
(* "raises".  schema_context is the list of its parts: the generated        *)
(* context, then one part for each validation feedback.                     *)

\* the marker of a code block
Fence == BQ \o BQ \o BQ

\* re.sub(r'^<marker>\s*\n?', '', s, flags=re.MULTILINE | re.IGNORECASE) from
\* the place i on; lower is s in lower case
RECURSIVE RemoveAtLineStarts(_, _, _, _)
RemoveAtLineStarts(s, lower, i, marker) ==
  IF i > Len(s) THEN ""
  ELSE IF (i = 1 \/ CharAt(s, i - 1) = "\n") /\ StartsWithAt(lower, i, marker)
  THEN RemoveAtLineStarts(s, lower, RunEnd(s, i + Len(marker), SpaceChars), marker)
  ELSE SubSeq(s, i, i) \o RemoveAtLineStarts(s, lower, i + 1, marker)

\* re.sub(r'\n```$', '', s, flags=re.MULTILINE) from the place i on
RECURSIVE RemoveClosingFences(_, _)
RemoveClosingFences(s, i) ==
  IF i > Len(s) THEN ""
  ELSE IF /\ StartsWithAt(s, i, "\n" \o Fence)
          /\ (i + 4 > Len(s) \/ CharAt(s, i + 4) = "\n")
  THEN RemoveClosingFences(s, i + 4)
  ELSE SubSeq(s, i, i) \o RemoveClosingFences(s, i + 1)

\* the response without the markers of a code block
Unfenced(s) ==
  RemoveClosingFences(
    RemoveAtLineStarts(RemoveAtLineStarts(s, StrLower(s), 1, Fence \o "sql"),
                       RemoveAtLineStarts(s, StrLower(s), 1, Fence \o "sql"), 1, Fence),
    1)

\* LLMQueryPlanner._extract_sql; "" stands for None
extract_sql(llm_response) ==
  IF ~Contains(StrLower(Strip(Unfenced(Strip(llm_response)))), "select") THEN ""
  ELSE Strip(Unfenced(Strip(llm_response)))

\* group 2 of `([^`]+\.)?([^`]+)` for the text between two backticks: what
\* follows the last dot that is not the last character
TableGroup(content) ==
  IF { k \in 1..(Len(content) - 1) : CharAt(content, k) = "." } = {} THEN content
  ELSE SubSeq(content,
              SetMax({ k \in 1..(Len(content) - 1) : CharAt(content, k) = "." }) + 1,
              Len(content))

\* extracted_tables of _validate_sql: re.findall of the table pattern, from
\* the place i on
RECURSIVE ExtractedTables(_, _)
ExtractedTables(sql, i) ==
  IF i > Len(sql) \/ Find(sql, BQ, i) = 0 \/ Find(sql, BQ, i) = Len(sql)
     \/ Find(sql, BQ, Find(sql, BQ, i) + 1) = 0
  THEN <<>>
  ELSE IF Find(sql, BQ, Find(sql, BQ, i) + 1) = Find(sql, BQ, i) + 1
  THEN ExtractedTables(sql, Find(sql, BQ, i) + 1)
  ELSE <<TableGroup(SubSeq(sql, Find(sql, BQ, i) + 1,
                           Find(sql, BQ, Find(sql, BQ, i) + 1) - 1))>>
       \o ExtractedTables(sql, Find(sql, BQ, Find(sql, BQ, i) + 1) + 1)

\* LLMQueryPlanner._validate_sql: valid, errors and extracted_tables of the
\* result; the warnings and the suggested corrections do not decide
\* anything.  validator: "none" when the planner has no validator.
validate_sql(project, sql, validator) ==
  LET tables == ExtractedTables(sql, 1)
      unknown == SelectSeq(tables,
                   LAMBDA table : ~DictHas(get_all_views(project), LastDotSegment(table)))
      errors == [n \in 1..Len(unknown) |-> "Unknown table: " \o unknown[n]]
                \o (IF validator = "error"
                    THEN <<"SQL syntax error: dry run failed">> ELSE <<>>)
  IN [valid |-> Len(errors) = 0, errors |-> errors, extracted_tables |-> tables]

\* main_table of _sql_to_query_plan: the first explore over the first
\* extracted table, else the first explore; "" stands for None
MainTable(index_, extracted_tables) ==
  LET over == IF Len(extracted_tables) = 0 THEN <<>>
              ELSE SelectSeq(index_.explores,
                     LAMBDA e : e.v.base_view = LastDotSegment(extracted_tables[1]))
  IN IF Len(over) > 0 THEN over[1].k
     ELSE IF Len(index_.explores) > 0 THEN index_.explores[1].k
     ELSE ""

\* LLMQueryPlanner._sql_to_query_plan
sql_to_query_plan(index_, sql, validation_result) ==
  IF MainTable(index_, validation_result.extracted_tables) = "" THEN NoPlan
  ELSE QueryPlan(MainTable(index_, validation_result.extracted_tables),
                 <<>>, {}, <<>>, 100,
                 \/ Contains(StrLower(sql), "count")
                 \/ Contains(StrLower(sql), "sum")
                 \/ Contains(StrLower(sql), "avg"),
                 sql)

\* LLMQueryPlanner._add_validation_feedback: the part it appends
add_validation_feedback(original_context, validation_result, failed_sql, attempt) ==
  Append(original_context,
         [attempt |-> attempt, errors |-> validation_result.errors,
          failed_sql |-> failed_sql])

\* the views the index has fields of: _analyze_field_semantics calls
\* generate_content once for each
AnalysedTables(index_) ==
  UNION { { f.view_name : f \in Range(DictValues(index_.explores[e].v.available_fields)) } :
            e \in 1..Len(index_.explores) }

\* the calls of GeminiService.generate_content that analyze_schema makes:
\* one for the fields of each view, and one for each view of which the
\* answer gave a field (enriched)
AnalysisCalls(index_, enriched) ==
  Cardinality(AnalysedTables(index_)) + Cardinality(enriched \cap AnalysedTables(index_))

\* LLMQueryPlanner.__init__; the planner between two calls of plan_query
LLMQueryPlanner(max_retries, has_validator, use_enhanced_context) ==
  [pc |-> "idle", max_retries |-> max_retries, has_validator |-> has_validator,
   use_enhanced_context |-> use_enhanced_context,
   schema_intelligence_cache |-> FALSE, attempt |-> 0, schema_context |-> <<>>,
   llm_calls |-> 0, attempts |-> <<>>]

\* one pass of the loop of plan_query, lines 89-141: what it comes to
llm_attempt(index_, project, response, validator) ==
  IF response.raises THEN [kind |-> "raised", sql |-> ""]
  ELSE IF Strip(response.content) = "" THEN [kind |-> "empty", sql |-> ""]
  ELSE IF extract_sql(response.content) = "" THEN [kind |-> "no_sql", sql |-> ""]
  ELSE IF ~validate_sql(project, extract_sql(response.content), validator).valid
  THEN [kind |-> "invalid", sql |-> extract_sql(response.content)]
  ELSE IF sql_to_query_plan(index_, extract_sql(response.content),
                            validate_sql(project, extract_sql(response.content), validator))
          = NoPlan
  THEN [kind |-> "no_plan", sql |-> extract_sql(response.content)]
  ELSE [kind |-> "plan", sql |-> extract_sql(response.content)]

\* the largest max_retries a planner is made with
MaxRetriesLimit == 1

\* what GeminiService.generate_sql comes to: it raises, or it returns a
\* response with this content
LLMResponses ==
  {[raises |-> TRUE, content |-> ""],
   [raises |-> FALSE, content |-> " \n"],
   [raises |-> FALSE, content |-> "I cannot answer that."],
   [raises |-> FALSE,
    content |-> Fence \o "sql\nSELECT COUNT(*) FROM " \o BQ \o "proj.ds.users" \o BQ
                \o "\n" \o Fence],
   [raises |-> FALSE, content |-> "SELECT * FROM " \o BQ \o "nowhere" \o BQ],
   [raises |-> FALSE, content |-> "SELECT 1"]}

\* what the validator of the planner says of a statement
ValidatorOutcomes(planner) ==
  IF planner.has_validator THEN {"ok", "error", "raises"} ELSE {"none"}

\* the projects the planners are made over: one view and its explore, two
\* views and an explore that joins them, and no view and no explore
LLMProjects ==
  {UsersProject, ProjectOf([joins |-> 1, flaw |-> "none"]), LookMLProject(<<>>, <<>>)}

\* TextToSQLEngine.initialize with an LLMQueryPlanner
InitLLM ==
  \E project \in LLMProjects, max_retries \in -1..MaxRetriesLimit,
     has_validator \in BOOLEAN, use_enhanced_context \in BOOLEAN :
    /\ lookml_files = {}
    /\ lookml_project = project
    /\ index = build_index(project)
    /\ max_joins = MaxJoinsLimit
    /\ table_aliases = EmptyDict
    /\ result = NoResult
    /\ calls = [caller \in Callers |-> IdleFrame]
    /\ llm_planner = LLMQueryPlanner(max_retries, has_validator, use_enhanced_context)

\* the planner when plan_query has made its context, lines 77-86: the
\* schema is analysed for the first request of a planner with the enhanced
\* context, and kept for the later ones
PlannerStarted(planner, analysis_calls) ==
  [planner EXCEPT
     !.pc = "attempt", !.attempt = 0, !.schema_context = <<"context">>,
     !.attempts = <<>>,
     !.llm_calls = IF planner.use_enhanced_context /\ ~planner.schema_intelligence_cache
                   THEN analysis_calls ELSE 0,
     !.schema_intelligence_cache = @ \/ planner.use_enhanced_context]

\* LLMQueryPlanner.plan_query up to its loop; range(max_retries + 1) is
\* empty for a max_retries under 0 and plan_query returns None at once
LLMPlanQuery(query, enriched) ==
  /\ llm_planner.pc = "idle"
  /\ IF llm_planner.max_retries + 1 <= 0
     THEN /\ llm_planner' = [PlannerStarted(llm_planner, AnalysisCalls(index, enriched))
                               EXCEPT !.pc = "idle"]
          /\ Returned("llm_plan_query", query, NoPlan)
     ELSE /\ llm_planner' = PlannerStarted(llm_planner, AnalysisCalls(index, enriched))
          /\ result' = [op |-> "llm_plan_query_running", arg |-> query]
  /\ UNCHANGED <<lookml_files, lookml_project, index, max_joins, table_aliases, calls>>

\* the planner after a pass of the loop that came to outcome
PlannerAfter(planner, outcome, validation_result) ==
  [planner EXCEPT
     !.attempt = @ + 1,
     !.llm_calls = @ + 1,
     !.attempts = Append(@, outcome),
     !.schema_context =
        IF outcome.kind = "invalid" /\ planner.attempt < planner.max_retries
        THEN add_validation_feedback(@, validation_result, outcome.sql, planner.attempt + 1)
        ELSE @,
     !.pc = IF outcome.kind = "plan" \/ planner.attempt >= planner.max_retries
            THEN "idle" ELSE "attempt"]

\* one pass of the loop of plan_query, with what follows the last pass
LLMAttemptStep(outcome, sql, validator) ==
  /\ llm_planner' = PlannerAfter(llm_planner, outcome,
                                 validate_sql(lookml_project, sql, validator))
  /\ IF outcome.kind = "plan"
     THEN Returned("llm_plan_query", result.arg,
                   sql_to_query_plan(index, sql, validate_sql(lookml_project, sql, validator)))
     ELSE IF llm_planner.attempt >= llm_planner.max_retries
     THEN Returned("llm_plan_query", result.arg, NoPlan)
     ELSE UNCHANGED result

LLMAttempt(response, validator) ==
  /\ llm_planner.pc = "attempt"
  /\ LLMAttemptStep(llm_attempt(index, lookml_project, response, validator),
                    llm_attempt(index, lookml_project, response, validator).sql,
                    validator)
  /\ UNCHANGED <<lookml_files, lookml_project, index, max_joins, table_aliases, calls>>

NextLLM ==
  \/ \E query \in {"show me the count of users", "zzz top 0"},
        enriched \in {{}, AnalysedTables(index)} :
       LLMPlanQuery(query, enriched)
  \/ \E response \in LLMResponses, validator \in ValidatorOutcomes(llm_planner) :
       LLMAttempt(response, validator)

SpecLLM == InitLLM /\ [][NextLLM]_vars

\* plan_query has been called
LLMRequested == result.op \in {"llm_plan_query_running", "llm_plan_query"}

\* plan_query has returned
LLMReturned == result.op = "llm_plan_query" /\ llm_planner.pc = "idle"

\* the passes whose SQL passed the validation
ValidatedAttempts ==
  { n \in 1..Len(llm_planner.attempts) : llm_planner.attempts[n].kind \in {"plan", "no_plan"} }

\* the passes after which the feedback of the validation was appended
FeedbackAttempts ==
  { llm_planner.schema_context[n].attempt : n \in 2..Len(llm_planner.schema_context) }

\* C30: plan_query ends after at most max_retries + 1 calls of the LLM
\* service for one request; it returns the plan built from the first
\* attempt whose SQL passes the validation, and no plan when every attempt
\* fails; the feedback of a validation is appended only after a failed
\* validation that is followed by another attempt
C30_BoundedAttemptsFirstValidPlan ==
  /\ LLMRequested => llm_planner.llm_calls <= llm_planner.max_retries + 1
  /\ LLMReturned =>
       /\ ValidatedAttempts # {} =>
            /\ result.ret # NoPlan
            /\ result.ret.llm_generated_sql = llm_planner.attempts[SetMin(ValidatedAttempts)].sql
       /\ ValidatedAttempts = {} => result.ret = NoPlan
       /\ FeedbackAttempts =
            { n \in 1..(Len(llm_planner.attempts) - 1) : llm_planner.attempts[n].kind = "invalid" }
  /\ llm_planner.pc = "attempt" =>
       FeedbackAttempts =
         { n \in 1..Len(llm_planner.attempts) : llm_planner.attempts[n].kind = "invalid" }

============================================================================
